---- MODULE Spec2Model ----
(***************************************************************************)
(* Remote worker lifecycle and artifact exchange (runpod package).         *)
(*                                                                         *)
(* One sequential control flow: a top-level operation is called when the   *)
(* program is idle, runs step by step (pc), and returns to idle with its   *)
(* result in ret.  The worker, the control plane and the network are the   *)
(* environment: every probe, control-plane request, remote command and     *)
(* file copy draws its outcome (and the wall-clock time it takes) from a   *)
(* small set.                                                              *)
(***************************************************************************)
EXTENDS Integers, Sequences, FiniteSets, TLC

VARIABLES
    config,        \* RunPodConfig: api_key, ssh_host, ssh_port
    current_pod,   \* RunPodManager.current_pod: None or a PodStatus
    op,            \* the top-level operation running (or last run)
    pc,            \* position inside the operation; "idle" between operations
    ret,           \* truth value of the last operation's return value
    auto_start,    \* argument of ensure_pod_running
    branch,        \* which call site of ensure_pod_running entered wait_for_pod_ready
    timeout,       \* argument of wait_for_pod_ready
    elapsed,       \* time.time() - start_time inside wait_for_pod_ready
    busy,          \* part of elapsed spent inside probes and describe requests
    n_probe,       \* test_ssh_connection calls of this operation
    n_describe,    \* get_pod_info calls of this operation
    n_sleep,       \* time.sleep(10) calls of this operation
    n_start,       \* start_pod calls of this operation
    n_stop,        \* stop_pod calls of this operation
    probe1,        \* outcome of the initial probe of ensure_pod_running
    start_ok,      \* outcome of start_pod inside ensure_pod_running
    last_probe,    \* outcome of the most recent probe
    last_info,     \* result of the most recent get_pod_info
    remote_dir,    \* path argument of clear_remote_directory
    cmds,          \* remote commands issued by this operation (execute_ssh_command)
    dl,            \* download_and_extract_outputs: what exists and what was done
    n_http,        \* HTTP requests sent to the control plane by this operation
    chan,          \* the SSH call in progress or last made, seen from inside
    sessions,      \* SSH sessions opened and not closed
    api,           \* the control-plane call last made, seen from inside
    fs,            \* the local base directory: its entries, oldest mtime first
    fetched,       \* the local side of the fetches made since the last prune
    pr,            \* the last prune_local_batches call: arguments and effect
    up,            \* upload_project_files: the archives it made and what it did
    tree,          \* the local project tree given to upload_project_files
    ar,            \* its archive, the remote workspace and the batch fetched back
    pl,            \* cmd_pipeline: its arguments, the stages run and its status
    rn             \* the manager or runner under construction, and the WebUI checks

vars == <<config, current_pod, op, pc, ret, auto_start, branch, timeout, elapsed,
          busy, n_probe, n_describe, n_sleep, n_start, n_stop, probe1, start_ok,
          last_probe, last_info, remote_dir, cmds, dl, n_http, chan, sessions, api,
          fs, fetched, pr, up, tree, ar, pl, rn>>

\* The local base directory is touched only by the local side of a fetch and
\* by prune_local_batches.
LocalFrame == UNCHANGED <<fs, fetched, pr, tree, ar, pl, rn>>

\* The lifecycle and transfer operations see the channel and the control
\* plane only through their results.
IoFrame == UNCHANGED <<chan, sessions, api>> /\ LocalFrame

(***************************************************************************)
(* Program constants                                                       *)
(***************************************************************************)
SleepInterval == 10
FastPathTimeout == 30
StartTimeout == 300
ProbeTimeout == 10
ApiTimeout == 30

None == [none |-> TRUE]

\* RunPodConfig: the connection details are Optional, the API key comes from
\* the environment.
Configs ==
    [api_key : BOOLEAN, ssh_host : {"", "194.68.245.201"}, ssh_port : {0, 22075}]

\* PodStatus as built by wait_for_pod_ready.
PodStatus(host, port) ==
    [status |-> "RUNNING", ssh_host |-> host, ssh_port |-> port, is_running |-> TRUE]

\* Wall-clock time a probe or a describe request may take: none, or its timeout.
ProbeDurations == {0, ProbeTimeout}
DescribeDurations == {0, ApiTimeout}

\* Largest timeout argument tried besides those the package itself passes.
MaxTimeoutArg == 25

\* Timeouts wait_for_pod_ready is called with: those of ensure_pod_running,
\* the default of the direct callers, and other arguments (0 and a negative
\* one included).
Timeouts == {0 - SleepInterval, 0, MaxTimeoutArg, FastPathTimeout, StartTimeout}

(***************************************************************************)
(* Pure helpers                                                            *)
(***************************************************************************)

\* test_ssh_connection: without host or port it returns False and connects to
\* nothing; otherwise the connect succeeds or raises (caught: False).
ProbeOutcomes(host, port) ==
    IF host = "" \/ port = 0 THEN {FALSE} ELSE BOOLEAN

\* The time such a probe takes.
ProbeTimes(host, port) ==
    IF host = "" \/ port = 0 THEN {0} ELSE ProbeDurations

\* What one HTTP request to the control plane can come back with: an
\* exception of requests.post, or a status and a body.  The body is not JSON,
\* has no "data" key, has "data": null, has the expected entry (pod, podStart,
\* podStop) null or missing, or has the entry; a pod entry carries its runtime.
Bodies ==
    {[shape |-> sh, runtime |-> "none"] :
        sh \in {"not_json", "no_data", "data_null", "entry_null"}}
    \cup {[shape |-> "entry", runtime |-> rt] : rt \in {"null", "empty", "ports"}}

Responses ==
    {[kind |-> "exception", status |-> 0, body |-> [shape |-> "not_json", runtime |-> "none"]]}
    \cup {[kind |-> "http", status |-> st, body |-> b] : st \in {200, 500}, b \in Bodies}

\* Mutant: the status code is not looked at.
EntryOf_AnyStatus(resp) ==
    resp.kind = "http" /\ resp.body.shape = "entry"

\* `response.status_code == 200` and
\* `'data' in data and data['data'] and data['data'].get(<entry>)`;
\* response.json() raises on a body that is not JSON, requests.post raises on
\* a network error, and `except Exception` turns both into the failure value.
EntryOf(resp) ==
    resp.kind = "http" /\ resp.status = 200 /\ resp.body.shape = "entry"

\* `if not self.config.api_key:`
HasCredential(api_key) == api_key

\* The stub get_pod_info returns without a credential.
StubPod == [runtime |-> "ports"]

\* Mutant: without a credential get_pod_info returns None, as on an error.
GetPodInfo_NoStub(api_key, resp) ==
    IF ~HasCredential(api_key) THEN [info |-> None, requests |-> 0, raised |-> FALSE]
    ELSE [info |-> IF EntryOf(resp) THEN [runtime |-> resp.body.runtime] ELSE None,
          requests |-> 1, raised |-> FALSE]

\* get_pod_info: what it returns and how many requests it sent.
GetPodInfo(api_key, resp) ==
    IF ~HasCredential(api_key) THEN [info |-> StubPod, requests |-> 0, raised |-> FALSE]
    ELSE [info |-> IF EntryOf(resp) THEN [runtime |-> resp.body.runtime] ELSE None,
          requests |-> 1, raised |-> FALSE]

\* Mutant: start_pod sends its request without looking for the credential.
StartPod_NoGuard(api_key, resp) == [ok |-> EntryOf(resp), requests |-> 1, raised |-> FALSE]

\* start_pod: what it returns and how many requests it sent.
StartPod(api_key, resp) ==
    IF ~HasCredential(api_key) THEN [ok |-> FALSE, requests |-> 0, raised |-> FALSE]
    ELSE [ok |-> EntryOf(resp), requests |-> 1, raised |-> FALSE]

\* stop_pod: the same shape, with the podStop entry.
StopPod(api_key, resp) ==
    IF ~HasCredential(api_key) THEN [ok |-> FALSE, requests |-> 0, raised |-> FALSE]
    ELSE [ok |-> EntryOf(resp), requests |-> 1, raised |-> FALSE]

\* The distinct answers of the three calls, over every response.
DescribeOutcomes(api_key) == {GetPodInfo(api_key, r) : r \in Responses}

DescribeTimes(api_key) == IF ~api_key THEN {0} ELSE DescribeDurations

MutationOutcomes(api_key) == {StartPod(api_key, r) : r \in Responses}

StopOutcomes(api_key) == {StopPod(api_key, r) : r \in Responses}

\* Mutant: the loop test is off by one.
LoopCondition_Inclusive(e, t) == e <= t

\* Mutant: only `if pod_info:` is tested, the runtime is not.
RuntimeTruthy_AnyPod(info) == info # None

\* `if pod_info:` and `if runtime:` of the polling loop.
RuntimeTruthy(info) == info # None /\ info.runtime \notin {"null", "empty"}

\* `while time.time() - start_time < timeout`
LoopCondition(e, t) == e < t

\* Mutant: the fast path marks the pod ready whatever the probe answered.
FastPathReady_Unprobed(probe_ok) == TRUE

\* `if self.test_ssh_connection():` of the fast path of wait_for_pod_ready.
FastPathReady(probe_ok) == probe_ok

\* `ssh_host and ssh_port and self.test_ssh_connection(ssh_host, ssh_port)`:
\* whether the loop calls the probe at all.
LoopProbes(host, port) == host # "" /\ port # 0

\* the same condition, once the probe has answered.
LoopReady(probe_ok) == probe_ok

\* Mutant: the fast path returns what wait_for_pod_ready returned.
EprFastResult_Propagated(wait_result) == wait_result

\* ensure_pod_running, fast path: the result of wait_for_pod_ready is dropped.
EprFastResult(wait_result) == TRUE

\* ensure_pod_running, start path: `return manager.wait_for_pod_ready(timeout=300)`.
EprStartResult(wait_result) == wait_result

\* Mutant: the start path is taken without being asked for.
StartRequested_Always(auto) == TRUE

\* `if auto_start:`
StartRequested(auto) == auto

\* Mutant: the result of start_pod is ignored.
StartSucceeded_Ignored(r) == TRUE

\* `if manager.start_pod():`
StartSucceeded(r) == r

\* Mutant: cleanup never finds a pod to forget.
Populated_Never == FALSE

\* manager.py line 411: `if self.current_pod and self.current_pod.is_running`.
Populated == current_pod # None /\ current_pod.is_running

(***************************************************************************)
(* Returns.  A return hands control to the caller in the same step.        *)
(***************************************************************************)
Finish(r) == pc' = "idle" /\ ret' = r

\* ensure_pod_running returns r to its caller.
EprReturn(r) ==
    CASE op = "ensure_pod_running" -> Finish(r)
      [] op = "clear_remote_directory" ->
            IF r THEN pc' = "crd_check" /\ ret' = ret ELSE Finish(FALSE)
      [] op = "download_and_extract_outputs" ->
            IF r THEN pc' = "dl_check" /\ ret' = ret ELSE Finish(FALSE)
      [] op = "upload_project_files" ->
            IF r THEN pc' = "up_build" /\ ret' = ret ELSE Finish(FALSE)

\* wait_for_pod_ready returns r to its caller.
WfrReturn(r) ==
    IF op = "wait_for_pod_ready" THEN Finish(r)
    ELSE IF branch = "fast" THEN EprReturn(EprFastResult(r))
    ELSE EprReturn(EprStartResult(r))

\* What every call of a top-level operation starts from: its arguments, and
\* fresh per-call records.
NoUpload ==
    [created |-> FALSE, local_archive |-> FALSE, remote_archive |-> FALSE,
     uploaded |-> FALSE, extracted |-> FALSE]

NoDownload ==
    [archive_made |-> FALSE, rm_issued |-> FALSE, local_archive |-> FALSE,
     batch_dir |-> FALSE, extracted |-> FALSE, checked |-> FALSE, check |-> <<>>,
     downloaded |-> FALSE, raised |-> FALSE]

Enter(o, a, t, p) ==
    /\ pc = "idle"
    /\ op' = o
    /\ auto_start' = a /\ timeout' = t /\ remote_dir' = p
    /\ branch' = "direct"
    /\ n_probe' = 0 /\ n_describe' = 0 /\ n_sleep' = 0 /\ n_start' = 0 /\ n_stop' = 0
    /\ probe1' = "none" /\ start_ok' = "none"
    /\ last_probe' = FALSE /\ last_info' = None
    /\ elapsed' = 0 /\ busy' = 0
    /\ cmds' = <<>>
    /\ dl' = NoDownload
    /\ up' = NoUpload
    /\ n_http' = 0
    /\ IoFrame

Tri(b) == IF b THEN "ok" ELSE "fail"

(***************************************************************************)
(* utils.ensure_pod_running                                                *)
(***************************************************************************)
call_ensure_pod_running ==
    \E a \in BOOLEAN :
        /\ Enter("ensure_pod_running", a, 0, <<>>)
        /\ pc' = "epr_probe"
        /\ UNCHANGED <<config, current_pod, ret>>

\* line 25: the initial probe, and the branch taken on its answer.
epr_probe ==
    /\ pc = "epr_probe"
    /\ \E r \in ProbeOutcomes(config.ssh_host, config.ssh_port) :
        /\ n_probe' = n_probe + 1
        /\ last_probe' = r
        /\ probe1' = Tri(r)
        /\ IF r
           THEN /\ pc' = "wfr_fast" /\ branch' = "fast" /\ timeout' = FastPathTimeout
                /\ ret' = ret
           ELSE IF StartRequested(auto_start)
           THEN pc' = "epr_start" /\ UNCHANGED <<branch, timeout, ret>>
           ELSE EprReturn(FALSE) /\ UNCHANGED <<branch, timeout>>
    /\ UNCHANGED <<config, current_pod, op, auto_start, elapsed, busy, n_describe,
                   n_sleep, n_start, n_stop, start_ok, last_info, remote_dir, cmds, dl>>
    /\ UNCHANGED <<n_http, up>> /\ IoFrame

\* line 32: start_pod, then the polling wait or the failure return.
epr_start ==
    /\ pc = "epr_start"
    /\ \E r \in MutationOutcomes(config.api_key) :
        /\ n_start' = n_start + 1
        /\ n_http' = n_http + r.requests
        /\ start_ok' = Tri(r.ok)
        /\ IF StartSucceeded(r.ok)
           THEN /\ pc' = "wfr_fast" /\ branch' = "start" /\ timeout' = StartTimeout
                /\ ret' = ret
           ELSE EprReturn(FALSE) /\ UNCHANGED <<branch, timeout>>
    /\ UNCHANGED <<config, current_pod, op, auto_start, elapsed, busy, n_probe,
                   n_describe, n_sleep, n_stop, probe1, last_probe, last_info,
                   remote_dir, cmds, dl>>
    /\ UNCHANGED up /\ IoFrame

(***************************************************************************)
(* RunPodManager.wait_for_pod_ready                                        *)
(***************************************************************************)
\* cmd_status and cmd_start call it directly.
call_wait_for_pod_ready ==
    \E t \in Timeouts :
        /\ Enter("wait_for_pod_ready", FALSE, t, <<>>)
        /\ pc' = "wfr_fast"
        /\ UNCHANGED <<config, current_pod, ret>>

\* lines 175-190: start_time is taken, then the fast-path probe.
wfr_fast ==
    /\ pc = "wfr_fast"
    /\ \E r \in ProbeOutcomes(config.ssh_host, config.ssh_port),
          d \in ProbeTimes(config.ssh_host, config.ssh_port) :
        /\ n_probe' = n_probe + 1
        /\ last_probe' = r
        /\ elapsed' = d /\ busy' = d
        /\ IF FastPathReady(r)
           THEN /\ current_pod' = PodStatus(config.ssh_host, config.ssh_port)
                /\ WfrReturn(TRUE)
           ELSE /\ pc' = "wfr_test" /\ UNCHANGED <<current_pod, ret>>
    /\ UNCHANGED <<config, op, auto_start, branch, timeout, n_describe, n_sleep,
                   n_start, n_stop, probe1, start_ok, last_info, remote_dir, cmds, dl>>
    /\ UNCHANGED <<n_http, up>> /\ IoFrame

\* line 192: the loop test; lines 222-223 when it fails.
wfr_test ==
    /\ pc = "wfr_test"
    /\ IF LoopCondition(elapsed, timeout)
       THEN pc' = "wfr_describe" /\ ret' = ret
       ELSE WfrReturn(FALSE)
    /\ UNCHANGED <<config, current_pod, op, auto_start, branch, timeout, elapsed,
                   busy, n_probe, n_describe, n_sleep, n_start, n_stop, probe1,
                   start_ok, last_probe, last_info, remote_dir, cmds, dl>>
    /\ UNCHANGED <<n_http, up>> /\ IoFrame

\* lines 193-198: describe, then the branch on pod_info and its runtime.
wfr_describe ==
    /\ pc = "wfr_describe"
    /\ \E g \in DescribeOutcomes(config.api_key), d \in DescribeTimes(config.api_key) :
        /\ n_describe' = n_describe + 1
        /\ n_http' = n_http + g.requests
        /\ last_info' = g.info
        /\ elapsed' = elapsed + d /\ busy' = busy + d
        /\ pc' = IF RuntimeTruthy(g.info) /\ LoopProbes(config.ssh_host, config.ssh_port)
                 THEN "wfr_probe" ELSE "wfr_sleep"
    /\ UNCHANGED <<config, current_pod, op, ret, auto_start, branch, timeout,
                   n_probe, n_sleep, n_start, n_stop, probe1, start_ok, last_probe,
                   remote_dir, cmds, dl>>
    /\ UNCHANGED up /\ IoFrame

\* lines 202-211: the probe of a running pod.
wfr_probe ==
    /\ pc = "wfr_probe"
    /\ \E r \in ProbeOutcomes(config.ssh_host, config.ssh_port),
          d \in ProbeTimes(config.ssh_host, config.ssh_port) :
        /\ n_probe' = n_probe + 1
        /\ last_probe' = r
        /\ elapsed' = elapsed + d /\ busy' = busy + d
        /\ IF LoopReady(r)
           THEN /\ current_pod' = PodStatus(config.ssh_host, config.ssh_port)
                /\ WfrReturn(TRUE)
           ELSE /\ pc' = "wfr_sleep" /\ UNCHANGED <<current_pod, ret>>
    /\ UNCHANGED <<config, op, auto_start, branch, timeout, n_describe, n_sleep,
                   n_start, n_stop, probe1, start_ok, last_info, remote_dir, cmds, dl>>
    /\ UNCHANGED <<n_http, up>> /\ IoFrame

\* lines 214, 217, 220: time.sleep(10), in each branch that did not return.
\* pod_info is local to the iteration that ends here.
wfr_sleep ==
    /\ pc = "wfr_sleep"
    /\ n_sleep' = n_sleep + 1
    /\ elapsed' = elapsed + SleepInterval
    /\ last_info' = None
    /\ pc' = "wfr_test"
    /\ UNCHANGED <<config, current_pod, op, ret, auto_start, branch, timeout, busy,
                   n_probe, n_describe, n_start, n_stop, probe1, start_ok,
                   last_probe, remote_dir, cmds, dl>>
    /\ UNCHANGED <<n_http, up>> /\ IoFrame

(***************************************************************************)
(* RunPodManager.cleanup, stop_pod (cmd_stop)                              *)
(***************************************************************************)
cleanup ==
    /\ Enter("cleanup", FALSE, 0, <<>>)
    /\ current_pod' = IF Populated THEN None ELSE current_pod
    /\ ret' = ret
    /\ UNCHANGED <<config, pc>>

\* cmd_stop: one stop_pod call; current_pod is not touched.
call_stop_pod ==
    /\ Enter("stop_pod", FALSE, 0, <<>>)
    /\ pc' = "stop_pod"
    /\ UNCHANGED <<config, current_pod, ret>>

stop_pod ==
    /\ pc = "stop_pod"
    /\ n_stop' = n_stop + 1
    /\ \E r \in StopOutcomes(config.api_key) :
        /\ n_http' = n_http + r.requests
        /\ Finish(r.ok)
    /\ UNCHANGED <<config, current_pod, op, auto_start, branch, timeout, elapsed,
                   busy, n_probe, n_describe, n_sleep, n_start, probe1, start_ok,
                   last_probe, last_info, remote_dir, cmds, dl>>
    /\ UNCHANGED up /\ IoFrame

(***************************************************************************)
(* Remote paths: sequences of characters                                   *)
(***************************************************************************)
WorkspaceRoot == <<"/", "w", "o", "r", "k", "s", "p", "a", "c", "e">>

IsSpace(c) == c \in {" ", "\t", "\n"}

RECURSIVE LStrip(_)
LStrip(s) == IF s # <<>> /\ IsSpace(Head(s)) THEN LStrip(Tail(s)) ELSE s

RECURSIVE RStrip(_)
RStrip(s) ==
    IF s # <<>> /\ IsSpace(s[Len(s)]) THEN RStrip(SubSeq(s, 1, Len(s) - 1)) ELSE s

\* str.strip()
Strip(s) == RStrip(LStrip(s))

\* str.startswith(prefix)
StartsWith(s, prefix) ==
    Len(s) >= Len(prefix) /\ SubSeq(s, 1, Len(prefix)) = prefix

\* remote_dir.replace("'", "'\\''")
RECURSIVE QuoteReplace(_)
QuoteReplace(s) ==
    IF s = <<>> THEN <<>>
    ELSE (IF Head(s) = "'" THEN <<"'", "\\", "'", "'">> ELSE <<Head(s)>>)
         \o QuoteReplace(Tail(s))

\* Mutant: the prefix check is lifted.
PathAllowed_Lifted(stripped) == TRUE

\* `if not remote_dir.startswith("/workspace"):` passes.
PathAllowed(stripped) == StartsWith(stripped, WorkspaceRoot)

\* The paths clear_remote_directory is called with.
RemoteDirs ==
    LET W == WorkspaceRoot
        etc == <<"/", "e", "t", "c">>
    IN  { W,
          W \o <<"/">>,
          W \o <<"/", "d">>,
          <<" ">> \o W \o <<"/", "d", "\n">>,
          W \o <<"/", "d", "'", "x">>,
          W \o <<"2", "/", "x">>,
          W \o <<"/", ".", ".">> \o etc,
          W \o <<"/", "d", "/", ".", ".", "/", ".", ".">>,
          <<"/", ".", ".">> \o W \o <<"/", "d">>,
          etc,
          <<" ">> \o etc,
          <<"/">>,
          <<>>,
          Tail(W) \o <<"/", "d">>,
          SubSeq(W, 1, 5) }

(***************************************************************************)
(* RunPodManager.execute_ssh_command, download_file: seen from the caller  *)
(***************************************************************************)
\* Without host or port the call returns failure at once; otherwise the
\* command's exit status, or a connection failure, decides.
ExecOutcomes(host, port) ==
    IF host = "" \/ port = 0 THEN {FALSE} ELSE BOOLEAN

Cmd(kind, arg) == [kind |-> kind, arg |-> arg]

Issued(kind) == \E i \in 1..Len(cmds) : cmds[i].kind = kind

(***************************************************************************)
(* utils.clear_remote_directory                                            *)
(***************************************************************************)
call_clear_remote_directory ==
    \E p \in RemoteDirs :
        /\ Enter("clear_remote_directory", FALSE, 0, p)
        /\ pc' = "epr_probe"
        /\ UNCHANGED <<config, current_pod, ret>>

\* lines 230-239: strip, the prefix check, then the mkdir/rm command.
crd_check ==
    /\ pc = "crd_check"
    /\ LET stripped == Strip(remote_dir) IN
        IF ~PathAllowed(stripped)
        THEN Finish(FALSE) /\ cmds' = cmds
        ELSE /\ cmds' = Append(cmds, Cmd("clear", QuoteReplace(stripped)))
             /\ \E ok \in ExecOutcomes(config.ssh_host, config.ssh_port) : Finish(ok)
    /\ UNCHANGED <<config, current_pod, op, auto_start, branch, timeout, elapsed,
                   busy, n_probe, n_describe, n_sleep, n_start, n_stop, probe1,
                   start_ok, last_probe, last_info, remote_dir, dl>>
    /\ UNCHANGED <<n_http, up>> /\ IoFrame

(***************************************************************************)
(* utils.upload_project_files                                              *)
(***************************************************************************)
call_upload_project_files ==
    /\ Enter("upload_project_files", FALSE, 0, <<>>)
    /\ pc' = "epr_probe"
    /\ UNCHANGED <<config, current_pod, ret>>

UpFrame ==
    UNCHANGED <<config, current_pod, op, auto_start, branch, timeout, elapsed,
                busy, n_probe, n_describe, n_sleep, n_start, n_stop, probe1,
                start_ok, last_probe, last_info, remote_dir, n_http, dl>>
    /\ IoFrame

\* lines 53-77: a missing local path returns False; NamedTemporaryFile creates
\* the local archive file, tarfile fills it; an exception of tarfile goes to
\* the except of line 102, which returns False.
up_build ==
    /\ pc = "up_build"
    /\ \/ /\ up' = up
          /\ Finish(FALSE)
       \/ /\ up' = [up EXCEPT !.created = TRUE, !.local_archive = TRUE]
          /\ Finish(FALSE)
       \/ /\ up' = [up EXCEPT !.created = TRUE, !.local_archive = TRUE]
          /\ pc' = "up_upload" /\ ret' = ret
    /\ cmds' = cmds
    /\ UpFrame

\* lines 80-90: upload_file (scp), then the local archive is removed; a failed
\* copy may leave a partial file on the remote side.
up_upload ==
    /\ pc = "up_upload"
    /\ \/ /\ up' = [up EXCEPT !.local_archive = FALSE, !.remote_archive = TRUE,
                              !.uploaded = TRUE]
          /\ pc' = "up_extract" /\ ret' = ret
       \/ \E partial \in BOOLEAN :
            /\ up' = [up EXCEPT !.local_archive = FALSE, !.remote_archive = partial]
            /\ Finish(FALSE)
    /\ cmds' = cmds
    /\ UpFrame

\* lines 92-100: `cd /workspace && tar -xzf ... && rm -f ...` as one remote
\* command: the rm runs only after a successful tar.
up_extract ==
    /\ pc = "up_extract"
    /\ cmds' = Append(cmds, Cmd("untar", <<>>))
    /\ \E ok \in ExecOutcomes(config.ssh_host, config.ssh_port) :
        /\ up' = [up EXCEPT !.extracted = ok,
                            !.remote_archive = IF ok THEN FALSE ELSE @]
        /\ Finish(ok)
    /\ UpFrame

(***************************************************************************)
(* utils.download_and_extract_outputs                                      *)
(***************************************************************************)
call_download_and_extract_outputs ==
    /\ Enter("download_and_extract_outputs", FALSE, 0, <<>>)
    /\ pc' = "epr_probe"
    /\ UNCHANGED <<config, current_pod, ret>>

DlFrame ==
    UNCHANGED <<config, current_pod, op, auto_start, branch, timeout, elapsed,
                busy, n_probe, n_describe, n_sleep, n_start, n_stop, probe1,
                start_ok, last_probe, last_info, remote_dir, n_http, up>>
    /\ IoFrame

\* What the check command prints: OK for a directory, MISSING otherwise;
\* nothing when the command did not run.
CheckOk == <<"O", "K", "\n">>
CheckMissing == <<"M", "I", "S", "S", "I", "N", "G", "\n">>

CheckOutputs(ok) == IF ok THEN {CheckOk, CheckMissing} ELSE {<<>>}

\* `sub in text` of Python.
Contains(sub, text) ==
    \E i \in 0..(Len(text) - Len(sub)) :
        \A j \in 1..Len(sub) : text[i + j] = sub[j]

\* Mutant: the command's success alone decides.
DirFound_ExitOnly(ok, stdout) == ok

\* line 299: `if not ok or 'OK' not in stdout:` is the negation.
DirFound(ok, stdout) == ok /\ Contains(<<"O", "K">>, stdout)

\* lines 297-301: `test -d ... && echo OK || echo MISSING`.
dl_check ==
    /\ pc = "dl_check"
    /\ cmds' = Append(cmds, Cmd("check", <<>>))
    /\ \E ok \in ExecOutcomes(config.ssh_host, config.ssh_port) :
        \E stdout \in CheckOutputs(ok) :
            /\ dl' = [dl EXCEPT !.checked = TRUE, !.check = stdout]
            /\ IF ~DirFound(ok, stdout)
               THEN Finish(FALSE)
               ELSE pc' = "dl_parent" /\ ret' = ret
    /\ DlFrame

\* lines 309-314: the remote parent directory.
dl_parent ==
    /\ pc = "dl_parent"
    /\ cmds' = Append(cmds, Cmd("parent", <<>>))
    /\ \E ok \in ExecOutcomes(config.ssh_host, config.ssh_port),
          stdout \in {"", "parent"} :
        IF ~ok \/ stdout = ""
        THEN Finish(FALSE)
        ELSE pc' = "dl_name" /\ ret' = ret
    /\ dl' = dl
    /\ DlFrame

\* lines 315-320: the remote directory name.
dl_name ==
    /\ pc = "dl_name"
    /\ cmds' = Append(cmds, Cmd("name", <<>>))
    /\ \E ok \in ExecOutcomes(config.ssh_host, config.ssh_port),
          stdout \in {"", "name"} :
        IF ~ok \/ stdout = ""
        THEN Finish(FALSE)
        ELSE pc' = "dl_tar" /\ ret' = ret
    /\ dl' = dl
    /\ DlFrame

\* lines 322-326: the remote tar command creates the remote archive.
dl_tar ==
    /\ pc = "dl_tar"
    /\ cmds' = Append(cmds, Cmd("tar", <<>>))
    /\ \E ok \in ExecOutcomes(config.ssh_host, config.ssh_port) :
        IF ~ok
        THEN Finish(FALSE) /\ dl' = dl
        ELSE /\ pc' = "dl_download" /\ ret' = ret
             /\ dl' = [dl EXCEPT !.archive_made = TRUE]
    /\ DlFrame

\* lines 329-332: download_file (scp) to the local temporary archive.
dl_download ==
    /\ pc = "dl_download"
    /\ \E ok \in BOOLEAN :
        IF ~ok
        THEN Finish(FALSE) /\ dl' = dl
        ELSE /\ pc' = "dl_extract" /\ ret' = ret
             /\ dl' = [dl EXCEPT !.local_archive = TRUE, !.downloaded = TRUE]
    /\ cmds' = cmds
    /\ DlFrame

\* Mutant: the local archive is unlinked only after a successful extraction.
FinallyUnlinks_OnSuccess(ok) == ok

\* lines 347-353: the finally clause unlinks the local archive whether or not
\* extractall raised.
FinallyUnlinks(ok) == TRUE

\* Mutant: a failed extraction is logged and the function carries on.
ExtractionAborts_Never(ok) == FALSE

\* lines 344-346: `except Exception as e: ... return None`.
ExtractionAborts(ok) == ~ok

\* lines 335-353: mkdir of the batch directory, extractall, and the finally
\* clause that unlinks the local archive.  mkdir is outside the try: when it
\* raises, the exception leaves the function.
dl_extract ==
    /\ pc = "dl_extract"
    /\ \/ /\ dl' = [dl EXCEPT !.raised = TRUE]
          /\ Finish(FALSE)
       \/ \E ok \in BOOLEAN :
            /\ dl' = [dl EXCEPT !.batch_dir = TRUE, !.extracted = ok,
                                !.local_archive = ~FinallyUnlinks(ok)]
            /\ IF ExtractionAborts(ok)
               THEN Finish(FALSE)
               ELSE pc' = "dl_rm" /\ ret' = ret
    /\ cmds' = cmds
    /\ DlFrame

\* lines 355-359: `rm -f` of the remote archive, its result ignored.
dl_rm ==
    /\ pc = "dl_rm"
    /\ cmds' = Append(cmds, Cmd("rm", <<>>))
    /\ dl' = [dl EXCEPT !.rm_issued = TRUE]
    /\ Finish(TRUE)
    /\ DlFrame

(***************************************************************************)
(* RunPodManager.execute_ssh_command and test_ssh_connection, from inside  *)
(***************************************************************************)
\* SSH sessions left open at once.
MaxSessions == 2

\* Longest captured output, in bytes.
MaxOut == 2

\* Largest remote exit code.
MaxExitCode == 3

\* The bytes a remote process writes: "A", and the two bytes of "e-acute",
\* each of which alone is not valid UTF-8.
ByteValues == {65, 195, 169}

RECURSIVE SeqsUpTo(_, _)
SeqsUpTo(S, n) ==
    IF n = 0 THEN {<<>>}
    ELSE LET shorter == SeqsUpTo(S, n - 1)
         IN  shorter \cup {Append(q, x) : q \in shorter, x \in S}

Outputs == SeqsUpTo(ByteValues, MaxOut)

\* bytes.decode('utf-8'), strict: one-byte and two-byte sequences; raises
\* UnicodeDecodeError on anything else.
RECURSIVE Utf8Valid(_)
Utf8Valid(bs) ==
    IF bs = <<>> THEN TRUE
    ELSE IF bs[1] < 128 THEN Utf8Valid(Tail(bs))
    ELSE IF bs[1] \in 194..223 /\ Len(bs) >= 2 /\ bs[2] \in 128..191
         THEN Utf8Valid(Tail(Tail(bs)))
    ELSE FALSE

RECURSIVE Utf8Decode(_)
Utf8Decode(bs) ==
    IF bs = <<>> THEN <<>>
    ELSE IF bs[1] < 128 THEN <<bs[1]>> \o Utf8Decode(Tail(bs))
    ELSE <<(bs[1] - 192) * 64 + (bs[2] - 128)>> \o Utf8Decode(Tail(Tail(bs)))

\* What paramiko can raise at each step.
ConnectErrors == {"refused", "timeout", "auth"}
ExecErrors == {"timeout", "channel"}
ReadErrors == {"timeout"}

\* str(e), one letter for each exception.
ExceptionText(e) ==
    CASE e = "refused" -> <<82>>
      [] e = "timeout" -> <<84>>
      [] e = "auth"    -> <<65>>
      [] e = "channel" -> <<67>>
      [] e = "decode"  -> <<68>>

\* "No SSH connection details available", as one letter.
NoDetailsMessage == <<78>>

\* recv_exit_status: the remote code (-1 when the server sent none), or an
\* exception.
ExitCodes == (0 - 1)..MaxExitCode

StatusOutcomes ==
    {[raised |-> TRUE, code |-> 0]}
    \cup {[raised |-> FALSE, code |-> n] : n \in ExitCodes}

\* Mutant: a status that cannot be retrieved counts as a failure.
RecvExitStatus_Failure(s) == IF s.raised THEN 1 ELSE s.code

\* lines 286-289: `except Exception: exit_status = 0`.
RecvExitStatus(s) == IF s.raised THEN 0 ELSE s.code

\* Mutant: every reported status counts as success.
Success_Reported(exit_status) == exit_status >= 0

\* line 293: `exit_status == 0`.
Success(exit_status) == exit_status = 0

\* `host = host or self.config.ssh_host`, `port = port or self.config.ssh_port`.
HostArgs == {"", "10.0.0.7"}
PortArgs == {0, 22}
HostOr(arg, configured) == IF arg # "" THEN arg ELSE configured
PortOr(arg, configured) == IF arg # 0 THEN arg ELSE configured

\* Mutant: only the host is required.
NoDetails_HostOnly(host, port) == host = ""

\* `if not host or not port:`
NoDetails(host, port) == host = "" \/ port = 0

\* Mutant: the probe answers True whatever the connect did.
TestSshResult_Optimistic(connected) == TRUE

\* test_ssh_connection: True after connect and close, False from the except.
TestSshResult(connected) == connected

NoChan ==
    [fn |-> "none", host |-> "", port |-> 0, attempts |-> 0,
     connected |-> FALSE, closed |-> FALSE, error |-> "none",
     out |-> <<>>, err |-> <<>>, status |-> [raised |-> FALSE, code |-> 0],
     reported |-> FALSE, result |-> <<>>]

NoApi ==
    [fn |-> "none",
     response |-> [kind |-> "exception", status |-> 0,
                   body |-> [shape |-> "not_json", runtime |-> "none"]],
     info |-> None, ok |-> FALSE, requests |-> 0, raised |-> FALSE]

\* What these calls leave alone: the state of the lifecycle and transfer
\* operations.
ChannelFrame ==
    UNCHANGED <<config, current_pod, auto_start, branch, timeout, elapsed, busy,
                n_probe, n_describe, n_sleep, n_start, n_stop, probe1, start_ok,
                last_probe, last_info, remote_dir, cmds, dl, n_http>>
    /\ LocalFrame
    /\ UNCHANGED up

\* lines 294-296: `except Exception as e: return False, "", str(e)`.
ExecExcept(e) ==
    /\ chan' = [chan EXCEPT !.error = e,
                            !.result = <<FALSE, <<>>, ExceptionText(e)>>]
    /\ pc' = "idle"
    /\ ret' = FALSE

\* lines 256-266: the arguments default to the configuration; no host or no
\* port returns at once.
call_execute_ssh_command ==
    /\ pc = "idle"
    /\ sessions < MaxSessions
    /\ \E h \in HostArgs, p \in PortArgs :
        LET host == HostOr(h, config.ssh_host)
            port == PortOr(p, config.ssh_port)
            c == [NoChan EXCEPT !.fn = "execute_ssh_command",
                                !.host = host, !.port = port]
        IN  IF NoDetails(host, port)
            THEN /\ chan' = [c EXCEPT !.result = <<FALSE, <<>>, NoDetailsMessage>>]
                 /\ pc' = "idle"
            ELSE /\ chan' = c
                 /\ pc' = "exec_connect"
    /\ op' = "execute_ssh_command"
    /\ ret' = FALSE
    /\ api' = NoApi
    /\ UNCHANGED sessions
    /\ ChannelFrame

\* lines 269-278: ssh.connect.
exec_connect ==
    /\ pc = "exec_connect"
    /\ \/ /\ chan' = [chan EXCEPT !.attempts = @ + 1, !.connected = TRUE]
          /\ sessions' = sessions + 1
          /\ pc' = "exec_command"
          /\ UNCHANGED ret
       \/ /\ \E e \in ConnectErrors :
                /\ chan' = [chan EXCEPT !.attempts = @ + 1, !.error = e,
                                        !.result = <<FALSE, <<>>, ExceptionText(e)>>]
                /\ pc' = "idle"
                /\ ret' = FALSE
          /\ UNCHANGED sessions
    /\ UNCHANGED <<op, api>>
    /\ ChannelFrame

\* line 280: ssh.exec_command.
exec_command ==
    /\ pc = "exec_command"
    /\ \/ /\ pc' = "exec_read"
          /\ UNCHANGED <<chan, ret>>
       \/ \E e \in ExecErrors : ExecExcept(e)
    /\ UNCHANGED <<op, api, sessions>>
    /\ ChannelFrame

\* lines 282-283: read and decode both streams.
exec_read ==
    /\ pc = "exec_read"
    /\ \/ \E o \in Outputs, e \in Outputs :
            IF Utf8Valid(o) /\ Utf8Valid(e)
            THEN /\ chan' = [chan EXCEPT !.out = o, !.err = e]
                 /\ pc' = "exec_status"
                 /\ UNCHANGED ret
            ELSE /\ chan' = [chan EXCEPT !.out = o, !.err = e, !.error = "decode",
                                        !.result = <<FALSE, <<>>, ExceptionText("decode")>>]
                 /\ pc' = "idle"
                 /\ ret' = FALSE
       \/ \E x \in ReadErrors : ExecExcept(x)
    /\ UNCHANGED <<op, api, sessions>>
    /\ ChannelFrame

\* lines 285-293: the exit status, close, and the result.
exec_status ==
    /\ pc = "exec_status"
    /\ \E s \in StatusOutcomes :
        LET exit_status == RecvExitStatus(s)
        IN  /\ chan' = [chan EXCEPT !.status = s, !.reported = TRUE, !.closed = TRUE,
                                    !.result = <<Success(exit_status),
                                                 Utf8Decode(chan.out),
                                                 Utf8Decode(chan.err)>>]
            /\ ret' = Success(exit_status)
    /\ sessions' = sessions - 1
    /\ pc' = "idle"
    /\ UNCHANGED <<op, api>>
    /\ ChannelFrame

\* lines 225-235.
call_test_ssh_connection ==
    /\ pc = "idle"
    /\ sessions < MaxSessions
    /\ \E h \in HostArgs, p \in PortArgs :
        LET host == HostOr(h, config.ssh_host)
            port == PortOr(p, config.ssh_port)
        IN  /\ chan' = [NoChan EXCEPT !.fn = "test_ssh_connection",
                                      !.host = host, !.port = port]
            /\ pc' = IF NoDetails(host, port) THEN "idle" ELSE "test_connect"
    /\ op' = "test_ssh_connection"
    /\ ret' = FALSE
    /\ api' = NoApi
    /\ UNCHANGED sessions
    /\ ChannelFrame

\* lines 237-247, 251-254: ssh.connect, or the except clause.
test_connect ==
    /\ pc = "test_connect"
    /\ \/ /\ chan' = [chan EXCEPT !.attempts = @ + 1, !.connected = TRUE]
          /\ sessions' = sessions + 1
          /\ pc' = "test_close"
          /\ UNCHANGED ret
       \/ /\ \E e \in ConnectErrors :
                chan' = [chan EXCEPT !.attempts = @ + 1, !.error = e]
          /\ ret' = TestSshResult(FALSE)
          /\ pc' = "idle"
          /\ UNCHANGED sessions
    /\ UNCHANGED <<op, api>>
    /\ ChannelFrame

\* lines 249-250: `ssh.close(); return True`.
test_close ==
    /\ pc = "test_close"
    /\ chan' = [chan EXCEPT !.closed = TRUE]
    /\ sessions' = sessions - 1
    /\ ret' = TestSshResult(chan.connected)
    /\ pc' = "idle"
    /\ UNCHANGED <<op, api>>
    /\ ChannelFrame

(***************************************************************************)
(* RunPodManager.get_pod_info, start_pod, stop_pod, from inside            *)
(***************************************************************************)
ApiFrame ==
    UNCHANGED <<config, current_pod, auto_start, branch, timeout, elapsed, busy,
                n_probe, n_describe, n_sleep, n_start, n_stop, probe1, start_ok,
                last_probe, last_info, remote_dir, cmds, dl, pc, sessions>>
    /\ LocalFrame
    /\ UNCHANGED up

api_get_pod_info ==
    /\ pc = "idle"
    /\ \E resp \in Responses :
        LET g == GetPodInfo(config.api_key, resp)
        IN  /\ api' = [NoApi EXCEPT !.fn = "get_pod_info", !.response = resp,
                                    !.info = g.info, !.requests = g.requests,
                                    !.raised = g.raised]
            /\ n_http' = g.requests
            /\ ret' = (g.info # None)
    /\ op' = "get_pod_info"
    /\ chan' = NoChan
    /\ ApiFrame

api_start_pod ==
    /\ pc = "idle"
    /\ \E resp \in Responses :
        LET r == StartPod(config.api_key, resp)
        IN  /\ api' = [NoApi EXCEPT !.fn = "start_pod", !.response = resp,
                                    !.ok = r.ok, !.requests = r.requests,
                                    !.raised = r.raised]
            /\ n_http' = r.requests
            /\ ret' = r.ok
    /\ op' = "start_pod"
    /\ chan' = NoChan
    /\ ApiFrame

api_stop_pod ==
    /\ pc = "idle"
    /\ \E resp \in Responses :
        LET r == StopPod(config.api_key, resp)
        IN  /\ api' = [NoApi EXCEPT !.fn = "stop_pod", !.response = resp,
                                    !.ok = r.ok, !.requests = r.requests,
                                    !.raised = r.raised]
            /\ n_http' = r.requests
            /\ ret' = r.ok
    /\ op' = "stop_pod"
    /\ chan' = NoChan
    /\ ApiFrame

(***************************************************************************)
(* The local base directory: download_and_extract_outputs (local side) and *)
(* prune_local_batches                                                     *)
(***************************************************************************)
\* Last second of the clock.
MaxSecond == 2

\* Fetches remembered between two prunes.
MaxFetches == 2

\* Clock readings are finer than the second that strftime keeps.
TicksPerSecond == 2
ClockReadings == 0..(TicksPerSecond * (MaxSecond + 1) - 1)

Digits == <<"0", "1", "2", "3", "4", "5", "6", "7", "8", "9">>

\* line 304: datetime.now().strftime('%Y%m%d_%H%M%S'), the reading cut to
\* whole seconds.
Strftime(reading) == <<Digits[(reading \div TicksPerSecond) + 1]>>

\* Names are sequences of pieces rather than of characters: "batch_3" is
\* <<"batch_", "3">>, "batch" is <<"batch">>.
BatchPrefix == <<"batch_">>

\* line 336: local_base / f"batch_{ts}".
BatchDirName(ts) == BatchPrefix \o ts

\* What else the base directory may hold: a directory named "batch", and a
\* regular file and a directory named batch_* without a timestamp; and a
\* symbolic link to a directory, named batch_* too.
PlainEntries ==
    << [name |-> <<"batch">>, kind |-> "dir"],
       [name |-> BatchPrefix \o <<"log">>, kind |-> "file"],
       [name |-> BatchPrefix \o <<"old">>, kind |-> "dir"] >>

LinkEntry == <<[name |-> BatchPrefix \o <<"ln">>, kind |-> "link"]>>

OtherEntries == {<<>>, PlainEntries, PlainEntries \o LinkEntry}

NoBase == [exists |-> FALSE, order |-> <<>>]

RECURSIVE BatchDirsFrom(_, _)
BatchDirsFrom(sec, present) ==
    IF sec > MaxSecond THEN <<>>
    ELSE (IF sec \in present
          THEN <<[name |-> BatchDirName(<<Digits[sec + 1]>>), kind |-> "dir"]>>
          ELSE <<>>) \o BatchDirsFrom(sec + 1, present)

\* The base directory as a run finds it: missing, or holding batches of
\* earlier seconds, older batches with older mtimes.
InitialBases ==
    {NoBase} \cup
    {[exists |-> TRUE, order |-> extra \o BatchDirsFrom(0, present)] :
        extra \in OtherEntries, present \in SUBSET (0..MaxSecond)}

NamesOf(order) == {order[i].name : i \in 1..Len(order)}

RemoveNames(order, names) == SelectSeq(order, LAMBDA e : e.name \notin names)

\* A write into a directory gives it the newest mtime.
Touch(order, name) ==
    RemoveNames(order, {name}) \o <<[name |-> name, kind |-> "dir"]>>

NoPrune ==
    [called |-> FALSE, keep |-> 0, before |-> NoBase, failed |-> {}, removed |-> 0]

\* Everything else is left alone by the local side of a fetch and by prune.
LocalOnly ==
    /\ UNCHANGED <<config, current_pod, op, pc, ret, auto_start, branch, timeout,
                   elapsed, busy, n_probe, n_describe, n_sleep, n_start, n_stop,
                   probe1, start_ok, last_probe, last_info, remote_dir, cmds, dl,
                   n_http, chan, sessions, api, up, tree, ar, pl, rn>>

\* download_and_extract_outputs, lines 304 and 329-359, seen from the local
\* base directory: the timestamp, mkdir(parents=True, exist_ok=True), and the
\* extraction.  A call that fails before line 337 does not come here.
\* line 337, mkdir(parents=True, exist_ok=True), and line 341, extractall: a
\* new directory gets the newest mtime; one that exists already gets it only
\* if the extraction adds an entry directly inside it (`fresh`), which it
\* does not when the archive's top-level directory is there from before.
AfterFetch(base, target_dir, ok, fresh) ==
    LET created == ~base.exists \/ target_dir \notin NamesOf(base.order)
    IN  [exists |-> TRUE,
         order |-> IF created \/ (ok /\ fresh) THEN Touch(base.order, target_dir)
                   ELSE base.order]

fetch_local ==
    /\ Len(fetched) < MaxFetches
    /\ \E reading \in ClockReadings, ok, fresh \in BOOLEAN :
        LET target_dir == BatchDirName(Strftime(reading))
        IN  /\ fs' = AfterFetch(fs, target_dir, ok, fresh)
            /\ fetched' = Append(fetched, [dir |-> target_dir, extracted |-> ok])
    /\ pr' = NoPrune
    /\ LocalOnly

\* Mutant: every directory is a candidate.
IsCandidate_AnyDir(e) == e.kind \in {"dir", "link"}

\* line 249: `p.is_dir() and p.name.startswith("batch_")`; is_dir follows a
\* symbolic link.
IsCandidate(e) == e.kind \in {"dir", "link"} /\ StartsWith(e.name, BatchPrefix)

Reverse(q) == [i \in 1..Len(q) |-> q[Len(q) + 1 - i]]

\* seq[k:] of Python.
SliceFrom(q, k) ==
    LET start == IF k >= 0 THEN k ELSE IF Len(q) + k > 0 THEN Len(q) + k ELSE 0
    IN  SubSeq(q, start + 1, Len(q))

\* lines 249-251: the candidates, newest mtime first.
SortedCandidates(order) == Reverse(SelectSeq(order, IsCandidate))

\* Mutant: the slice without the test of the sign.
ToRemove_Unguarded(candidates, keep) == SliceFrom(candidates, keep)

\* line 252: `candidates[keep:] if keep >= 0 else []`.
ToRemove(candidates, keep) == IF keep >= 0 THEN SliceFrom(candidates, keep) ELSE <<>>

\* lines 253-261: shutil.rmtree(path, ignore_errors=True) never raises, so
\* `removed += 1` runs for every path.
RemovedCount(to_remove, failed) == Len(to_remove)

\* cli.py lines 260 and 384: keep is keep_local, or 5 when it is not given.
DefaultKeep == 5

Keeps == (0 - 1)..DefaultKeep

\* shutil.rmtree refuses a symbolic link; the deletion of a directory may fail
\* too (permissions, a file in use), here of one directory at most.
RmtreeFailures(to_remove) ==
    LET links == {to_remove[i].name :
                    i \in {j \in 1..Len(to_remove) : to_remove[j].kind = "link"}}
        dirs == {to_remove[i].name :
                    i \in {j \in 1..Len(to_remove) : to_remove[j].kind = "dir"}}
    IN  {links} \cup {links \cup {d} : d \in dirs}

\* prune_local_batches(local_base_dir, keep).
Pruned(keep) ==
    IF ~fs.exists
    THEN /\ pr' = [NoPrune EXCEPT !.called = TRUE, !.keep = keep]
         /\ fs' = fs
    ELSE LET candidates == SortedCandidates(fs.order)
             to_remove == ToRemove(candidates, keep)
         IN  \E failed \in RmtreeFailures(to_remove) :
                /\ fs' = [fs EXCEPT !.order =
                            RemoveNames(fs.order,
                                {to_remove[i].name : i \in 1..Len(to_remove)} \ failed)]
                /\ pr' = [called |-> TRUE, keep |-> keep, before |-> fs,
                          failed |-> failed,
                          removed |-> RemovedCount(to_remove, failed)]

prune_local_batches ==
    /\ \E keep \in Keeps : Pruned(keep)
    /\ fetched' = <<>>
    /\ LocalOnly

(***************************************************************************)
(* upload_project_files: the archive filter, and the way back through      *)
(* download_and_extract_outputs                                            *)
(***************************************************************************)
\* Leaves a project tree is made of.
MaxLeaves == 2

\* lines 66-68: the denylisted substrings.
ExcludedTokens ==
    { <<".", "g", "i", "t", "/">>,
      <<"n", "o", "d", "e", "_", "m", "o", "d", "u", "l", "e", "s", "/">>,
      <<"_", "_", "p", "y", "c", "a", "c", "h", "e", "_", "_", "/">>,
      <<".", "m", "y", "p", "y", "_", "c", "a", "c", "h", "e", "/">>,
      <<".", "p", "y", "t", "e", "s", "t", "_", "c", "a", "c", "h", "e", "/">> }

DotPyc == <<".", "p", "y", "c">>
DotPyo == <<".", "p", "y", "o">>

EndsWith(s, suffix) ==
    Len(s) >= Len(suffix) /\ SubSeq(s, Len(s) - Len(suffix) + 1, Len(s)) = suffix

\* Mutant: the suffix tests are missing.
Excluded_TokensOnly(name) ==
    \E token \in ExcludedTokens : Contains(token, name)

\* lines 62-74: _exclude returns None for a name that holds a denylisted
\* substring or ends in .pyc or .pyo.
Excluded(name) ==
    \/ \E token \in ExcludedTokens : Contains(token, name)
    \/ EndsWith(name, DotPyc)
    \/ EndsWith(name, DotPyo)

\* File and directory names of the tree.
NameGit == <<".", "g", "i", "t">>
NameXGit == <<"x", ".", "g", "i", "t">>
NamePycache == <<"_", "_", "p", "y", "c", "a", "c", "h", "e", "_", "_">>
NamePyc == <<"m", ".", "p", "y", "c">>
NamePyo == <<"m", ".", "p", "y", "o">>
NameFile == <<"f">>
NameSub == <<"h">>
NamePlain == <<"a">>

\* line 77: arcname=base_path.name.
BaseName == <<"p">>

TopDirs == {NameGit, NameXGit, NamePycache, NamePyc, NamePlain}

Entry(path, kind) == [path |-> path, kind |-> kind]

\* The leaves: files at the top, empty directories, files in a directory and
\* files two directories down.
Leaves ==
    {Entry(<<n>>, "file") : n \in {NameFile, NamePyo}}
    \cup {Entry(<<d>>, "dir") : d \in TopDirs}
    \cup {Entry(<<d, n>>, "file") : d \in TopDirs, n \in {NameFile, NamePyc}}
    \cup {Entry(<<d, NameSub, NameFile>>, "file") : d \in TopDirs}

\* A tree holds the directories above each of its entries, and its root.
TreeOf(leaves) ==
    leaves
    \cup UNION {{Entry(SubSeq(e.path, 1, k), "dir") : k \in 0..(Len(e.path) - 1)} :
                    e \in leaves}

InitialTrees ==
    {TreeOf(L) : L \in {X \in SUBSET Leaves : Cardinality(X) \in 1..MaxLeaves}}

\* The name of an entry inside the archive: the base name and the relative
\* path, joined by "/".
RECURSIVE JoinPath(_)
JoinPath(path) ==
    IF path = <<>> THEN <<>>
    ELSE <<"/">> \o path[1] \o JoinPath(Tail(path))

ArcName(path) == BaseName \o JoinPath(path)

Children(t, path) ==
    {e \in t : Len(e.path) = Len(path) + 1 /\ SubSeq(e.path, 1, Len(path)) = path}

\* tarfile.add(name, arcname, filter=_exclude): an entry the filter drops is
\* not added and, if it is a directory, not descended into.
RECURSIVE TarAdd(_, _)
TarAdd(t, e) ==
    IF Excluded(ArcName(e.path)) THEN {}
    ELSE {[name |-> ArcName(e.path), kind |-> e.kind]}
         \cup (IF e.kind = "dir"
               THEN UNION {TarAdd(t, c) : c \in Children(t, e.path)}
               ELSE {})

\* What /workspace may hold under the project's name before the upload: the
\* file of an earlier upload.
StaleFile == [name |-> BaseName \o <<"/", "o", "l", "d">>, kind |-> "file"]

NoArchive == [stage |-> "none", archive |-> {}, remote |-> {}, batch |-> {}]

ArchiveOnly ==
    UNCHANGED <<config, current_pod, op, pc, ret, auto_start, branch, timeout,
                elapsed, busy, n_probe, n_describe, n_sleep, n_start, n_stop,
                probe1, start_ok, last_probe, last_info, remote_dir, cmds, dl,
                n_http, chan, sessions, api, fs, fetched, pr, up, tree, pl, rn>>

\* lines 76-77: the archive of the tree.
build_archive ==
    /\ ar.stage = "start"
    /\ ar' = [ar EXCEPT !.stage = "built",
                        !.archive = TarAdd(tree, Entry(<<>>, "dir"))]
    /\ ArchiveOnly

\* lines 80-98: upload, and `cd /workspace && tar -xzf` on the worker, which
\* adds the archive's entries to what is there.
remote_extract ==
    /\ ar.stage = "built"
    /\ ar' = [ar EXCEPT !.stage = "uploaded", !.remote = @ \cup ar.archive]
    /\ ArchiveOnly

\* download_and_extract_outputs("/workspace/<base name>"), lines 309-343:
\* `tar -C /workspace -czf <archive> <base name>` on the worker and extractall
\* into the batch directory.
fetch_back ==
    /\ ar.stage = "uploaded"
    /\ ar' = [ar EXCEPT !.stage = "fetched",
                        !.batch = {e \in ar.remote :
                                      \/ e.name = BaseName
                                      \/ StartsWith(e.name, BaseName \o <<"/">>)}]
    /\ ArchiveOnly

(***************************************************************************)
(* cli.cmd_pipeline                                                        *)
(***************************************************************************)
\* The stages in the order of the function body.
Stages ==
    <<"ensure", "setup", "install", "upload", "purge", "probe", "boot",
      "execute", "fetch", "prune">>

\* The optional stages and the argument that selects each.
Optional == {"setup", "install", "upload", "purge", "prune"}

PipelineArgs == [Optional -> BOOLEAN]

NoPipeline ==
    [args |-> [o \in Optional |-> FALSE],
     result |-> [st \in {Stages[i] : i \in 1..Len(Stages)} |-> "none"],
     trace |-> <<>>, jobs |-> 0, status |-> 0 - 1]

PipelineOnly ==
    UNCHANGED <<config, current_pod, ret, auto_start, branch, timeout,
                elapsed, busy, n_probe, n_describe, n_sleep, n_start, n_stop,
                probe1, start_ok, last_probe, last_info, remote_dir, cmds, dl,
                n_http, chan, sessions, api, fs, fetched, pr, up, tree, ar, rn>>

\* `return <status>`.
PlReturn(status, p) ==
    /\ pl' = [p EXCEPT !.status = status]
    /\ pc' = "idle"

Ran(stage, ok) ==
    [pl EXCEPT !.trace = Append(@, stage), !.result[stage] = Tri(ok)]

\* Mutant: a failed upload is only reported, like a failed purge.
StageAborts_UploadWarns(stage, ok) == ~ok /\ stage \notin {"purge", "upload"}

\* lines 290-292, 296-298, 302-304: `return 1` after a failed setup,
\* installation or upload; lines 310-311: a failed purge prints a warning.
StageAborts(stage, ok) == ~ok /\ stage # "purge"

call_cmd_pipeline ==
    /\ pc = "idle"
    /\ \E args \in PipelineArgs : pl' = [NoPipeline EXCEPT !.args = args]
    /\ op' = "cmd_pipeline"
    /\ pc' = "pl_ensure"
    /\ PipelineOnly

\* lines 284-286.
pl_ensure ==
    /\ pc = "pl_ensure"
    /\ \E ok \in BOOLEAN :
        IF ok THEN pl' = Ran("ensure", ok) /\ pc' = "pl_setup"
        ELSE PlReturn(1, Ran("ensure", ok))
    /\ UNCHANGED op
    /\ PipelineOnly

\* An optional stage before the job: skipped unless selected; run, it either
\* lets the run go on or ends it.
OptionalStage(stage, next) ==
    /\ IF ~pl.args[stage]
       THEN pl' = pl /\ pc' = next
       ELSE \E ok \in BOOLEAN :
                IF StageAborts(stage, ok)
                THEN PlReturn(1, Ran(stage, ok))
                ELSE pl' = Ran(stage, ok) /\ pc' = next
    /\ UNCHANGED op
    /\ PipelineOnly

\* lines 288-292: manager.setup_workspace().
pl_setup ==
    /\ pc = "pl_setup"
    /\ OptionalStage("setup", "pl_install")

\* lines 294-298: manager.install_dependencies().
pl_install ==
    /\ pc = "pl_install"
    /\ OptionalStage("install", "pl_upload")

\* lines 300-304: upload_project_files("./").
pl_upload ==
    /\ pc = "pl_upload"
    /\ OptionalStage("upload", "pl_purge")

\* lines 306-311: clear_remote_directory(remote_output_dir).
pl_purge ==
    /\ pc = "pl_purge"
    /\ OptionalStage("purge", "pl_probe")

\* lines 342-346: the WebUI probe command; `not ok or 'DOWN' in probe_out`
\* leads to the boot command.
pl_probe ==
    /\ pc = "pl_probe"
    /\ \E up_ok \in BOOLEAN :
        /\ pl' = Ran("probe", up_ok)
        /\ pc' = IF up_ok THEN "pl_execute" ELSE "pl_boot"
    /\ UNCHANGED op
    /\ PipelineOnly

\* lines 347-354: the boot command, its result not looked at.
pl_boot ==
    /\ pc = "pl_boot"
    /\ \E ok \in BOOLEAN : pl' = Ran("boot", ok)
    /\ pc' = "pl_execute"
    /\ UNCHANGED op
    /\ PipelineOnly

\* Mutant: the run goes on to the fetch after a failed job.
JobAborts_Never(success) == FALSE

\* lines 364-368: `if not success: ... return 1`.
JobAborts(success) == ~success

\* lines 356-368: the remote job command.
pl_execute ==
    /\ pc = "pl_execute"
    /\ \E success \in BOOLEAN :
        LET p == [Ran("execute", success) EXCEPT !.jobs = @ + 1]
        IN  IF JobAborts(success) THEN PlReturn(1, p)
            ELSE pl' = p /\ pc' = "pl_fetch"
    /\ UNCHANGED op
    /\ PipelineOnly

\* Mutant: the status of the job stands whatever the fetch did.
FetchStatus_JobStands(extracted) == 0

\* lines 381-390: `return 0` under `if extracted:`, `return 1` under `else:`.
FetchStatus(extracted) == IF extracted THEN 0 ELSE 1

\* lines 377-390: download_and_extract_outputs; without a batch the status is
\* 1, with one it is 0, after the prune if selected.
pl_fetch ==
    /\ pc = "pl_fetch"
    /\ \E extracted \in BOOLEAN :
        IF extracted /\ pl.args["prune"]
        THEN pl' = Ran("fetch", extracted) /\ pc' = "pl_prune"
        ELSE PlReturn(FetchStatus(extracted), Ran("fetch", extracted))
    /\ UNCHANGED op
    /\ PipelineOnly

\* lines 383-387: prune_local_batches, then `return 0`.
pl_prune ==
    /\ pc = "pl_prune"
    /\ PlReturn(FetchStatus(TRUE), Ran("prune", TRUE))
    /\ UNCHANGED op
    /\ PipelineOnly

(***************************************************************************)
(* The end of cmd_pipeline and cmd_execute: fetch, then prune               *)
(***************************************************************************)
RunCommands == {"cmd_pipeline", "cmd_execute"}

RunOnly ==
    UNCHANGED <<config, current_pod, ret, auto_start, branch, timeout,
                elapsed, busy, n_probe, n_describe, n_sleep, n_start, n_stop,
                probe1, start_ok, last_probe, last_info, remote_dir, cmds, dl,
                n_http, chan, sessions, api, up, tree, ar, rn>>

\* cli.py lines 253-266: cmd_execute returns 0 after a successful script
\* whatever the fetch did; lines 381-390: cmd_pipeline.
RunStatus(cmd, extracted) ==
    IF cmd = "cmd_execute" THEN 0 ELSE FetchStatus(extracted)

\* cli.py lines 377-382 and 253-259, after a successful job: the fetch, and
\* the way to the prune under `if extracted:` with prune_local selected.  A
\* command is one invocation of the program, on the base directory it finds.
run_fetch ==
    /\ pc = "idle" /\ op = "none"
    /\ \E cmd \in RunCommands, prune \in BOOLEAN, reading \in ClockReadings,
          ok, fresh \in BOOLEAN :
        LET target_dir == BatchDirName(Strftime(reading))
            p == [NoPipeline EXCEPT !.args["prune"] = prune,
                                    !.result["execute"] = "ok",
                                    !.result["fetch"] = Tri(ok),
                                    !.trace = <<"execute", "fetch">>,
                                    !.jobs = 1]
        IN  /\ op' = cmd
            /\ fs' = AfterFetch(fs, target_dir, ok, fresh)
            /\ fetched' = <<[dir |-> target_dir, extracted |-> ok]>>
            /\ IF ok /\ prune
               THEN pl' = p /\ pc' = "run_prune"
               ELSE PlReturn(RunStatus(cmd, ok), p)
    /\ pr' = NoPrune
    /\ RunOnly

\* cli.py lines 383-387 and 260-263: keep is keep_local, 5 by default; then
\* `return 0`.
run_prune ==
    /\ pc = "run_prune"
    /\ \E keep \in Keeps : Pruned(keep)
    /\ PlReturn(RunStatus(op, TRUE), Ran("prune", TRUE))
    /\ UNCHANGED <<op, fetched>>
    /\ RunOnly

(***************************************************************************)
(* cli.cmd_monitor and utils.monitor_process                               *)
(***************************************************************************)
\* utils.py line 184 and cli.py line 518: the default timeout.
MonitorTimeout == 3600

\* utils.py line 200: time.sleep(30).
MonitorInterval == 30

\* manager.py line 258: the default timeout of execute_ssh_command, which
\* bounds the connect; a check takes no time or that long.
ExecTimeout == 300

CheckDurations == {0, ExecTimeout}

MonitorTimeouts == {0, MaxTimeoutArg, MonitorTimeout}

\* What pgrep prints: the process ids, or nothing with a non-zero status.
PgrepOutputs(ok) == IF ok THEN {<<"4", "2", "\n">>} ELSE {<<>>}

\* utils.py line 198: `if success and stdout.strip():`.
ProcessRunning(success, stdout) == success /\ Strip(stdout) # <<>>

\* Mutant: the exit status is 0 whatever monitor_process returned.
MonitorStatus_Zero(r) == 0

\* cli.py lines 400-405: `return 0` if monitor_process(...) else `return 1`.
MonitorStatus(r) == IF r THEN 0 ELSE 1

MonitorOnly ==
    UNCHANGED <<config, current_pod, auto_start, branch, n_describe, n_start,
                n_stop, probe1, start_ok, last_probe, last_info, remote_dir,
                cmds, dl, n_http, chan, sessions, api, fs, fetched, pr, up,
                tree, ar, rn>>

call_cmd_monitor ==
    /\ pc = "idle"
    /\ \E t \in MonitorTimeouts : timeout' = t
    /\ op' = "cmd_monitor"
    /\ elapsed' = 0 /\ busy' = 0 /\ n_sleep' = 0 /\ n_probe' = 0
    /\ pl' = NoPipeline
    /\ pc' = "cm_ensure"
    /\ ret' = ret
    /\ MonitorOnly

\* cli.py lines 396-398: ensure_pod_running(auto_start=args.auto_start).
cm_ensure ==
    /\ pc = "cm_ensure"
    /\ \E ok \in BOOLEAN :
        IF ok THEN pl' = Ran("ensure", ok) /\ pc' = "mp_ensure"
        ELSE PlReturn(1, Ran("ensure", ok))
    /\ UNCHANGED <<op, ret, timeout, elapsed, busy, n_sleep, n_probe>>
    /\ MonitorOnly

\* utils.py lines 186-191: monitor_process calls ensure_pod_running() itself,
\* then takes start_time.
mp_ensure ==
    /\ pc = "mp_ensure"
    /\ \E ok \in BOOLEAN :
        IF ok THEN pc' = "mp_test" /\ ret' = ret
        ELSE pc' = "cm_result" /\ ret' = FALSE
    /\ UNCHANGED <<op, pl, timeout, elapsed, busy, n_sleep, n_probe>>
    /\ MonitorOnly

\* line 193: `while time.time() - start_time < timeout`; lines 205-206 after it.
mp_test ==
    /\ pc = "mp_test"
    /\ IF LoopCondition(elapsed, timeout)
       THEN pc' = "mp_check" /\ ret' = ret
       ELSE pc' = "cm_result" /\ ret' = FALSE
    /\ UNCHANGED <<op, pl, timeout, elapsed, busy, n_sleep, n_probe>>
    /\ MonitorOnly

\* lines 195-203: pgrep on the pod; busy keeps the time this check took.
mp_check ==
    /\ pc = "mp_check"
    /\ \E ok \in ExecOutcomes(config.ssh_host, config.ssh_port),
          d \in CheckDurations :
        \E stdout \in PgrepOutputs(ok) :
            /\ elapsed' = elapsed + d /\ busy' = d
            /\ n_probe' = n_probe + 1
            /\ IF ProcessRunning(ok, stdout)
               THEN pc' = "mp_sleep" /\ ret' = ret
               ELSE pc' = "cm_result" /\ ret' = FALSE
    /\ UNCHANGED <<op, pl, timeout, n_sleep>>
    /\ MonitorOnly

\* line 200.
mp_sleep ==
    /\ pc = "mp_sleep"
    /\ elapsed' = elapsed + MonitorInterval
    /\ n_sleep' = n_sleep + 1
    /\ pc' = "mp_test"
    /\ UNCHANGED <<op, ret, pl, timeout, busy, n_probe>>
    /\ MonitorOnly

\* cli.py lines 400-405.
cm_result ==
    /\ pc = "cm_result"
    /\ PlReturn(MonitorStatus(ret), Ran("execute", ret))
    /\ UNCHANGED <<op, ret, timeout, elapsed, busy, n_sleep, n_probe>>
    /\ MonitorOnly

(***************************************************************************)
(* RunPodManager.__init__, PipelineRunner.__init__ and wait_for_webui      *)
(***************************************************************************)
\* The default of wait_for_webui's timeout parameter.
WebuiTimeout == 300

WebuiTimeouts == {0, MaxTimeoutArg, WebuiTimeout}

\* Truth value of a constructor argument: None is false, a RunPodConfig
\* instance (a dataclass without __bool__ or __len__) is true.
Truthy(x) == x # None

\* `a or b` of Python.
Or(a, b) == IF Truthy(a) THEN a ELSE b

\* manager.py line 33: `self.config = config or config`. Inside __init__ both
\* names are the parameter; the module-level object of the same name is hidden.
SelfConfig(arg) == Or(arg, arg)

\* line 36: `self.config.api_key` raises AttributeError on None.
InitRaises(arg) == SelfConfig(arg) = None

NoRunner ==
    [built |-> "none", given |-> FALSE, mconfig |-> None, raised |-> FALSE,
     checks |-> 0, seen_ready |-> FALSE, all_not_ready |-> TRUE]

RunnerOnly ==
    UNCHANGED <<config, current_pod, auto_start, branch, busy, n_probe,
                n_describe, n_start, n_stop, probe1, start_ok, last_probe,
                last_info, remote_dir, cmds, dl, n_http, chan, sessions, api,
                fs, fetched, pr, up, tree, ar, pl>>

Constructed(kind, arg) ==
    [NoRunner EXCEPT !.built = kind, !.given = (arg # None),
                     !.mconfig = SelfConfig(arg), !.raised = InitRaises(arg)]

\* manager.py lines 32-39, called as RunPodManager(config) (line 416) or as
\* RunPodManager().
new_manager ==
    /\ pc = "idle"
    /\ \E arg \in {None, config} : rn' = Constructed("manager", arg)
    /\ op' = "RunPodManager"
    /\ UNCHANGED <<pc, ret, timeout, elapsed, n_sleep>>
    /\ RunnerOnly

\* run_pipeline.py lines 20-23: `self.manager = RunPodManager()`.
new_runner ==
    /\ pc = "idle"
    /\ rn' = Constructed("runner", None)
    /\ op' = "PipelineRunner"
    /\ UNCHANGED <<pc, ret, timeout, elapsed, n_sleep>>
    /\ RunnerOnly

\* What the check command prints: `... && echo 'ready' || echo 'not_ready'`;
\* nothing when the command did not run.
WebuiReadyOut == <<"r", "e", "a", "d", "y", "\n">>
WebuiNotReadyOut == <<"n", "o", "t", "_">> \o WebuiReadyOut

WebuiOutputs(ok) == IF ok THEN {WebuiReadyOut, WebuiNotReadyOut} ELSE {<<>>}

\* run_pipeline.py line 47: `if response[0] and 'ready' in response[1]:`.
WebuiReady(ok, stdout) == ok /\ Contains(<<"r", "e", "a", "d", "y">>, stdout)

\* wait_for_webui is applied to a runner whose manager carries `config`.
call_wait_for_webui ==
    /\ pc = "idle"
    /\ \E t \in WebuiTimeouts : timeout' = t
    /\ op' = "wait_for_webui"
    /\ elapsed' = 0 /\ n_sleep' = 0
    /\ rn' = NoRunner
    /\ pc' = "ww_test"
    /\ ret' = ret
    /\ RunnerOnly

\* line 40: `while time.time() - start_time < timeout`; lines 57-58 after it.
ww_test ==
    /\ pc = "ww_test"
    /\ IF LoopCondition(elapsed, timeout)
       THEN pc' = "ww_check" /\ ret' = ret
       ELSE Finish(FALSE)
    /\ UNCHANGED <<op, timeout, elapsed, n_sleep, rn>>
    /\ RunnerOnly

\* lines 41-52: the check command and the test of its answer.
ww_check ==
    /\ pc = "ww_check"
    /\ \E ok \in ExecOutcomes(config.ssh_host, config.ssh_port) :
        \E stdout \in WebuiOutputs(ok) :
            /\ rn' = [rn EXCEPT !.checks = @ + 1,
                                !.seen_ready = @ \/ (ok /\ stdout = WebuiReadyOut),
                                !.all_not_ready =
                                    @ /\ ok /\ stdout = WebuiNotReadyOut]
            /\ IF WebuiReady(ok, stdout)
               THEN Finish(TRUE)
               ELSE pc' = "ww_sleep" /\ ret' = ret
    /\ UNCHANGED <<op, timeout, elapsed, n_sleep>>
    /\ RunnerOnly

\* line 54: time.sleep(10).
ww_sleep ==
    /\ pc = "ww_sleep"
    /\ elapsed' = elapsed + SleepInterval
    /\ n_sleep' = n_sleep + 1
    /\ pc' = "ww_test"
    /\ UNCHANGED <<op, ret, timeout, rn>>
    /\ RunnerOnly

Init ==
    /\ config \in Configs
    /\ current_pod = None
    /\ op = "none" /\ pc = "idle" /\ ret = FALSE
    /\ auto_start = FALSE /\ branch = "direct" /\ timeout = 0
    /\ elapsed = 0 /\ busy = 0
    /\ n_probe = 0 /\ n_describe = 0 /\ n_sleep = 0 /\ n_start = 0 /\ n_stop = 0
    /\ probe1 = "none" /\ start_ok = "none"
    /\ last_probe = FALSE /\ last_info = None
    /\ remote_dir = <<>>
    /\ cmds = <<>>
    /\ dl = NoDownload
    /\ n_http = 0
    /\ chan = NoChan /\ sessions = 0
    /\ api = NoApi
    /\ fs = NoBase /\ fetched = <<>> /\ pr = NoPrune
    /\ up = NoUpload
    /\ tree = {} /\ ar = NoArchive
    /\ pl = NoPipeline
    /\ rn = NoRunner

(***************************************************************************)
(* Properties                                                              *)
(***************************************************************************)
EprOp == op = "ensure_pod_running"
ClearOp == op = "clear_remote_directory"
DownloadOp == op = "download_and_extract_outputs"
Returned == pc = "idle"

\* C1: once the remote tar command of download_and_extract_outputs succeeded,
\* a delete command for the remote archive has been issued when the function
\* returns, on every return path.
C1_RemoteArchiveDeleted ==
    (DownloadOp /\ Returned /\ dl.archive_made) => Issued("rm")

\* The location a remote path denotes: its components with "", "." dropped
\* and ".." resolved, as the remote shell resolves it.
RECURSIVE Components(_, _)
Components(s, cur) ==
    IF s = <<>> THEN <<cur>>
    ELSE IF Head(s) = "/" THEN <<cur>> \o Components(Tail(s), <<>>)
    ELSE Components(Tail(s), Append(cur, Head(s)))

RECURSIVE Resolve(_, _)
Resolve(comps, stack) ==
    IF comps = <<>> THEN stack
    ELSE LET c == Head(comps) IN
         IF c = <<>> \/ c = <<".">> THEN Resolve(Tail(comps), stack)
         ELSE IF c = <<".", ".">>
         THEN Resolve(Tail(comps),
                      IF stack = <<>> THEN <<>> ELSE SubSeq(stack, 1, Len(stack) - 1))
         ELSE Resolve(Tail(comps), Append(stack, c))

UnderWorkspace(path) ==
    /\ path # <<>> /\ Head(path) = "/"
    /\ LET r == Resolve(Components(path, <<>>), <<>>) IN
        r # <<>> /\ r[1] = Tail(WorkspaceRoot)

\* C2: for every path that denotes a location outside the /workspace tree,
\* clear_remote_directory executes no remote command and returns False.
C2_OutsideRefused ==
    (ClearOp /\ ~UnderWorkspace(Strip(remote_dir)))
        => (cmds = <<>> /\ (Returned => ~ret))

\* C3: for every path whose stripped text does not start with "/workspace",
\* clear_remote_directory never calls execute_ssh_command and returns False.
C3_UnprefixedRefused ==
    (ClearOp /\ ~StartsWith(Strip(remote_dir), WorkspaceRoot))
        => (cmds = <<>> /\ (Returned => ~ret))

C3_Witness ==
    /\ ClearOp /\ Returned /\ probe1 = "ok" /\ ~ret /\ cmds = <<>>
    /\ ~StartsWith(Strip(remote_dir), WorkspaceRoot)
    /\ remote_dir # <<>>

\* C4: current_pod becomes populated only in a step that is an SSH probe
\* answering True, and a populated current_pod has is_running true and the
\* configured ssh_host and ssh_port set.
C4_ProbeConfirmed ==
    /\ [](Populated =>
            /\ current_pod.ssh_host = config.ssh_host /\ current_pod.ssh_host # ""
            /\ current_pod.ssh_port = config.ssh_port /\ current_pod.ssh_port # 0)
    /\ [](current_pod # None => current_pod.is_running)
    /\ [][(current_pod' # current_pod /\ current_pod' # None)
            => (pc \in {"wfr_fast", "wfr_probe"} /\ n_probe' = n_probe + 1
                /\ last_probe')]_vars

C4_Witness ==
    Populated /\ Returned /\ op = "wait_for_pod_ready" /\ n_describe > 0 /\ ret

\* C5: ensure_pod_running returns True whenever its initial probe succeeded,
\* whatever auto_start, the control plane and the later probes do.
C5_FastPathTrue ==
    (EprOp /\ Returned /\ probe1 = "ok") => ret

C5_Witness ==
    /\ EprOp /\ Returned /\ probe1 = "ok" /\ ret
    /\ n_describe > 0 /\ ~last_probe /\ ~config.api_key

\* C6: when the initial probe of ensure_pod_running succeeded, no
\* control-plane request (get_pod_info, start_pod, stop_pod) is made
\* during that call.
C6_NoControlPlane ==
    (EprOp /\ probe1 = "ok") => (n_describe = 0 /\ n_start = 0 /\ n_stop = 0)

\* C7: whenever ensure_pod_running returns True, current_pod is populated.
C7_ReturnedTruePopulated ==
    (EprOp /\ Returned /\ ret) => Populated

\* C8: ensure_pod_running(auto_start=False) never calls start_pod or stop_pod,
\* and when its initial probe fails it returns False at once: no
\* control-plane call, no further probe, no sleep.
C8_NoAutoStart ==
    (op \in {"ensure_pod_running", "clear_remote_directory",
             "download_and_extract_outputs"} /\ ~auto_start)
        => /\ n_start = 0 /\ n_stop = 0 /\ pc # "epr_start"
           /\ (probe1 = "fail" =>
                 /\ Returned /\ ~ret
                 /\ n_describe = 0 /\ n_sleep = 0 /\ n_probe = 1)

C8_Witness ==
    EprOp /\ ~auto_start /\ probe1 = "fail" /\ Returned /\ ~ret

\* C9: with auto_start=True and a failed initial probe, start_pod is called
\* exactly once; if it returns False the call returns False without polling
\* (no get_pod_info, no further probe, no sleep).
C9_StartOnce ==
    (EprOp /\ auto_start /\ probe1 = "fail")
        => /\ n_start = (IF pc = "epr_start" THEN 0 ELSE 1)
           /\ (start_ok = "fail" =>
                 /\ Returned /\ ~ret
                 /\ n_describe = 0 /\ n_probe = 1 /\ n_sleep = 0)
           /\ (start_ok = "ok" => n_probe >= (IF pc = "wfr_fast" THEN 1 ELSE 2))

C9_Witness ==
    EprOp /\ auto_start /\ probe1 = "fail" /\ start_ok = "fail" /\ Returned

\* wait_for_pod_ready has returned False, to ensure_pod_running or to the caller.
WaitTimedOut ==
    /\ Returned /\ ~ret
    /\ \/ op = "wait_for_pod_ready"
       \/ EprOp /\ start_ok = "ok"

\* wait_for_pod_ready has returned True out of its polling loop.
WaitReadyInLoop ==
    /\ Returned /\ ret /\ n_describe > 0
    /\ \/ op = "wait_for_pod_ready"
       \/ EprOp /\ start_ok = "ok"

\* Probes made inside the polling loop: all but the initial probe of
\* ensure_pod_running and the fast-path probe of wait_for_pod_ready.
LoopProbeCount == n_probe - (IF EprOp THEN 2 ELSE 1)

\* The loop can probe at all: host and port are configured.
SshConfigured == config.ssh_host # "" /\ config.ssh_port # 0

InWait == pc \in {"wfr_test", "wfr_describe", "wfr_probe", "wfr_sleep"}

\* The counting part of C10: a probe only after a describe that showed a
\* runtime, one sleep of 10 per iteration that did not reach READY, and
\* READY after k describe calls and k-1 sleeps.
PollCounting ==
    /\ (pc = "wfr_probe" => (last_info # None /\ last_info.runtime = "ports"))
    /\ (pc \in {"wfr_test", "wfr_describe"} => n_sleep = n_describe)
    /\ (pc \in {"wfr_probe", "wfr_sleep"} => n_sleep = n_describe - 1)
    /\ (InWait => elapsed = SleepInterval * n_sleep + busy)
    /\ (WaitReadyInLoop => n_sleep = n_describe - 1)
    /\ (WaitTimedOut => n_sleep = n_describe)

\* C10 as stated: after k-1 polls without a runtime the k-th describe is
\* made whenever 10*(k-1) is below the timeout, i.e. the loop gives up
\* after n such polls only if 10*n has reached the timeout.
C10_SleepsAloneBoundPolls ==
    /\ PollCounting
    /\ (WaitTimedOut /\ SshConfigured /\ LoopProbeCount = 0)
          => SleepInterval * n_describe >= timeout

\* C10 amended: the k-th describe is made whenever the time elapsed since
\* entry, the k-1 sleeps of 10 plus the time spent in the fast-path probe
\* and in the describe calls, is below the timeout.
C10_ElapsedBoundsPolls ==
    /\ PollCounting
    /\ (WaitTimedOut /\ SshConfigured /\ LoopProbeCount = 0)
          => SleepInterval * n_describe + busy >= timeout
    /\ (pc = "wfr_describe" => SleepInterval * n_describe + busy < timeout)

\* The scenario of the specification: unreachable worker, auto_start, start
\* succeeds, three polls without a runtime, the fourth with a runtime and a
\* successful probe.
C10_Witness ==
    /\ EprOp /\ auto_start /\ probe1 = "fail" /\ start_ok = "ok"
    /\ Returned /\ ret /\ Populated
    /\ n_describe = 4 /\ n_sleep = 3 /\ n_probe = 3

\* Positions inside wait_for_pod_ready.
WaitPcs == {"wfr_fast", "wfr_test", "wfr_describe", "wfr_probe", "wfr_sleep"}

\* C11: wait_for_pod_ready always terminates; when its last probe did not
\* succeed it returns False; no describe call is started once the time
\* elapsed since entry has reached the timeout; with timeout <= 0 the loop
\* body is never executed.
C11_WaitTerminates ==
    /\ [](pc = "wfr_describe" => elapsed < timeout)
    /\ [](timeout <= 0 =>
            (pc \notin {"wfr_describe", "wfr_probe", "wfr_sleep"}
             /\ n_describe = 0 /\ n_sleep = 0))
    /\ []((op = "wait_for_pod_ready" /\ Returned /\ ~last_probe) => ~ret)
    /\ ((pc \in WaitPcs) ~> (pc \notin WaitPcs))

C11_Witness ==
    /\ op = "wait_for_pod_ready" /\ Returned /\ ~ret
    /\ timeout = StartTimeout /\ elapsed >= timeout /\ n_describe > 1

ExecReturned == op = "execute_ssh_command" /\ Returned

TestReturned == op = "test_ssh_connection" /\ Returned

\* C12: every SSH session opened by execute_ssh_command is closed before the
\* call returns, on every outcome, so that no session is open between two
\* remote operations.
C12_SessionsClosed ==
    Returned => (sessions = 0 /\ (chan.connected => chan.closed))

\* str.encode('utf-8') of a decoded text, for code points below 2048.
RECURSIVE Utf8Encode(_)
Utf8Encode(cps) ==
    IF cps = <<>> THEN <<>>
    ELSE IF cps[1] < 128 THEN <<cps[1]>> \o Utf8Encode(Tail(cps))
    ELSE <<192 + (cps[1] \div 64), 128 + (cps[1] % 64)>> \o Utf8Encode(Tail(cps))

\* The remote process reported the exit code n.
ExitReported == ExecReturned /\ chan.reported /\ ~chan.status.raised

C15_ConnectionFailure ==
    /\ (ExecReturned /\ chan.error # "none" /\ ~chan.connected) =>
        /\ chan.result[1] = FALSE /\ ~ret
        /\ chan.result[2] = <<>>
        /\ chan.result[3] = ExceptionText(chan.error)
        /\ chan.attempts = 1
    /\ (op = "execute_ssh_command" /\ (chan.host = "" \/ chan.port = 0)) =>
        /\ Returned
        /\ chan.attempts = 0
        /\ chan.result[1] = FALSE /\ chan.result[2] = <<>>
        /\ chan.result[3] = NoDetailsMessage

C15_Witness ==
    /\ ExecReturned /\ chan.error = "auth" /\ ~chan.connected
    /\ chan.result = <<FALSE, <<>>, ExceptionText("auth")>>

\* C16: test_ssh_connection returns True only if the connect of this call
\* succeeded, False on any error, and attempts at most one connection.
C16_ProbeTruthful ==
    /\ (TestReturned /\ ret) =>
          (chan.connected /\ chan.closed /\ chan.error = "none")
    /\ (TestReturned /\ chan.error # "none") => ~ret
    /\ (op = "test_ssh_connection") => chan.attempts <= 1
    /\ (op = "test_ssh_connection" /\ (chan.host = "" \/ chan.port = 0)) =>
          (Returned /\ ~ret /\ chan.attempts = 0)

C16_Witness ==
    /\ TestReturned /\ ret /\ chan.connected /\ chan.attempts = 1
    /\ chan.host = config.ssh_host

\* C17: without an API credential start_pod and stop_pod return False and send
\* no HTTP request.
C17_NoCredentialNoRequest ==
    ~config.api_key =>
        /\ (n_start > 0 => (start_ok = "fail" /\ n_http = 0))
        /\ (op = "stop_pod" => n_http = 0)
        /\ (op = "stop_pod" /\ n_stop > 0 => (Returned /\ ~ret))

C17_Witness ==
    /\ ~config.api_key /\ EprOp /\ Returned
    /\ n_start = 1 /\ start_ok = "fail" /\ n_http = 0 /\ ~ret

\* Probes made by the polling loop: every caller but wait_for_pod_ready itself
\* comes through the initial probe of ensure_pod_running, and the fast path of
\* wait_for_pod_ready makes one more.
PollProbes == n_probe - (IF op = "wait_for_pod_ready" THEN 1 ELSE 2)

\* C18: without an API credential get_pod_info sends no HTTP request and its
\* stub counts as a running runtime: with host and port configured every poll
\* of wait_for_pod_ready makes its probe, and the loop returns READY at the
\* first probe that succeeds.
C18_StubKeepsPolling ==
    (~config.api_key /\ SshConfigured) =>
        /\ n_http = 0
        /\ (n_describe > 0 /\ pc # "wfr_sleep" /\ pc # "wfr_probe" =>
                PollProbes = n_describe)
        /\ (pc = "wfr_probe" =>
                (last_info = [runtime |-> "ports"] /\ PollProbes = n_describe - 1))
        /\ (pc = "wfr_sleep" => (PollProbes = n_describe /\ ~last_probe))
        /\ (Returned /\ (op = "wait_for_pod_ready" \/ EprOp)
                     /\ n_describe > 0 /\ last_probe => ret)

C18_Witness ==
    /\ ~config.api_key /\ SshConfigured
    /\ op = "wait_for_pod_ready" /\ Returned /\ ret
    /\ n_describe = 2 /\ n_probe = 3 /\ n_sleep = 1 /\ n_http = 0

\* C20: download_and_extract_outputs on a remote directory that does not
\* exist returns None after the one check command: no batch directory, no
\* archive, no download and no further remote command.
C20_MissingDirStopsDownload ==
    (DownloadOp /\ dl.check = CheckMissing) =>
        /\ Returned /\ ~ret
        /\ cmds = <<Cmd("check", <<>>)>>
        /\ ~dl.batch_dir /\ ~dl.archive_made /\ ~dl.local_archive
        /\ ~dl.extracted /\ ~dl.rm_issued

C20_Witness ==
    /\ DownloadOp /\ Returned /\ ~ret
    /\ dl.check = CheckMissing /\ Len(cmds) = 1

\* download_and_extract_outputs has returned (not raised) after the archive
\* reached the local machine.
ReturnedAfterTransfer == DownloadOp /\ Returned /\ dl.downloaded /\ ~dl.raised

CmdKinds == [i \in 1..Len(cmds) |-> cmds[i].kind]

\* C22: download_and_extract_outputs returns a batch directory only if the
\* existence check, the parent and name resolution, the remote archive, the
\* download and the extraction all succeeded; after a failed extraction it
\* returns None and the batch directory it created stays.
C22_PathOnlyAfterEveryStep ==
    /\ (DownloadOp /\ Returned /\ ret) =>
        /\ dl.check = CheckOk
        /\ CmdKinds = <<"check", "parent", "name", "tar", "rm">>
        /\ dl.archive_made /\ dl.downloaded /\ dl.batch_dir /\ dl.extracted
        /\ ~dl.raised
    /\ (ReturnedAfterTransfer /\ ~dl.extracted) => (~ret /\ dl.batch_dir)

C22_Witness ==
    ReturnedAfterTransfer /\ ~dl.extracted /\ dl.batch_dir /\ ~ret /\ ~dl.rm_issued

\* C23: any two successful fetches into the same base directory, whatever the
\* clock read, return two distinct batch directories, and neither extracts
\* into the directory of the other.
C23_DistinctBatchDirs ==
    \A i, j \in 1..Len(fetched) :
        (i < j /\ fetched[i].extracted /\ fetched[j].extracted) =>
            fetched[i].dir # fetched[j].dir

\* A directory of the base directory whose name starts with batch_.
IsBatchDir(e) == e.kind \in {"dir", "link"} /\ Len(e.name) >= 1 /\ e.name[1] = "batch_"

BatchDirsBefore ==
    {i \in 1..Len(pr.before.order) : IsBatchDir(pr.before.order[i])}

\* The batch directories with at least k more recently modified ones.
AllButNewest(k) ==
    {pr.before.order[i].name :
        i \in {x \in BatchDirsBefore :
                Cardinality({y \in BatchDirsBefore : y > x}) >= k}}

Gone == NamesOf(pr.before.order) \ NamesOf(fs.order)

C28_OnlyPruneDeletesBatches ==
    /\ [](pr.called =>
            /\ fs.exists = pr.before.exists
            /\ \A i \in 1..Len(pr.before.order) :
                 (pr.before.order[i].name \in Gone) =>
                    (/\ pr.before.order[i].kind = "dir"
                     /\ pr.before.order[i].name[1] = "batch_")
            /\ fs.order = RemoveNames(pr.before.order, Gone))
    /\ [][(NamesOf(fs.order) \ NamesOf(fs'.order) # {}) => pr'.called]_vars
    /\ [][fs.exists => fs'.exists]_vars

C28_Witness ==
    /\ pr.called /\ pr.keep = 0 /\ Gone # {}
    /\ Len(fs.order) >= 3
    /\ fs.order[1].name = <<"batch">> /\ fs.order[2].kind = "file"

\* C29: the count prune_local_batches returns is the number of batch
\* directories it deleted; a directory whose deletion fails is not counted.
C29_CountsDeleted ==
    pr.called => pr.removed = Cardinality(Gone)

\* C24: after upload_project_files returns, on success and on every failure
\* past the creation of the archive, neither the local temporary archive nor
\* the remote copy uploaded by the call remains.
C24_UploadArchivesRemoved ==
    (op = "upload_project_files" /\ Returned /\ up.created) =>
        (~up.local_archive /\ ~up.remote_archive)

\* The path holds a denylisted substring or ends in .pyc or .pyo.
Denylisted(name) ==
    \/ Contains(<<".", "g", "i", "t", "/">>, name)
    \/ Contains(<<"n", "o", "d", "e", "_", "m", "o", "d", "u", "l", "e", "s", "/">>, name)
    \/ Contains(<<"_", "_", "p", "y", "c", "a", "c", "h", "e", "_", "_", "/">>, name)
    \/ Contains(<<".", "m", "y", "p", "y", "_", "c", "a", "c", "h", "e", "/">>, name)
    \/ Contains(<<".", "p", "y", "t", "e", "s", "t", "_", "c", "a", "c", "h", "e", "/">>, name)
    \/ (Len(name) >= 4 /\ SubSeq(name, Len(name) - 3, Len(name)) \in {<<".", "p", "y", "c">>, <<".", "p", "y", "o">>})

ArchivedNames == {e.name : e \in ar.archive}

\* C25: upload_project_files(localPath) followed by a successful
\* download_and_extract_outputs of the uploaded path gives a batch whose files
\* are the files of localPath, with the same relative paths, minus exactly the
\* files the exclusion list matches.
C25_RoundTrip ==
    (ar.stage = "fetched") =>
        {e.name : e \in {b \in ar.batch : b.kind = "file"}}
          = {ArcName(e.path) :
                e \in {x \in tree : x.kind = "file" /\ ~Denylisted(ArcName(x.path))}}

\* C26, as stated: the archive of upload_project_files holds an entry of the
\* local tree iff its archive path has none of the denylisted substrings and
\* does not end in .pyc or .pyo.
C26_ArchivedIffNotDenylisted ==
    (ar.stage # "start") =>
        \A e \in tree :
            (ArcName(e.path) \in ArchivedNames) <=> ~Denylisted(ArcName(e.path))

\* The entry or a directory above it is denylisted.
DenylistedAbove(path) ==
    \E k \in 0..Len(path) : Denylisted(ArcName(SubSeq(path, 1, k)))

\* C26, amended: the archive holds an entry of the local tree iff neither its
\* archive path nor the archive path of a directory above it has a denylisted
\* substring or ends in .pyc or .pyo: a dropped directory takes its whole
\* subtree with it, and no file inside a version-control, cache or bytecode
\* directory is archived.
C26_ArchivedIffNoneAboveDenylisted ==
    (ar.stage # "start") =>
        /\ \A e \in tree :
            (ArcName(e.path) \in ArchivedNames) <=> ~DenylistedAbove(e.path)
        /\ \A n \in ArchivedNames : \E e \in tree : ArcName(e.path) = n

C26_Witness ==
    /\ ar.stage = "built"
    /\ \E e \in tree :
        /\ Len(e.path) = 2 /\ e.path[1] = <<"m", ".", "p", "y", "c">>
        /\ ~Denylisted(ArcName(e.path))
        /\ ArcName(e.path) \notin ArchivedNames
    /\ \E e \in tree :
        /\ Len(e.path) = 1 /\ e.kind = "dir"
        /\ ArcName(e.path) \in ArchivedNames

PipelineOp == op = "cmd_pipeline"

\* C30, as stated: if a selected optional stage before the job fails (setup,
\* installation, upload or purge), the run returns failure and the job command
\* is never issued.
C30_OptionalFailureAborts ==
    (PipelineOp /\ \E st \in {"setup", "install", "upload", "purge"} :
                        pl.result[st] = "fail") =>
        (pl.jobs = 0 /\ pc \notin {"pl_probe", "pl_boot", "pl_execute", "pl_fetch"}
         /\ (Returned => pl.status = 1))

\* C30, amended: a failed setup, installation or upload ends the run at that
\* stage with status 1 and no job command; a failed purge is reported and the
\* run goes on to the service probe and the job command.
C30_SetupInstallUploadAbort ==
    /\ (PipelineOp /\ \E st \in {"setup", "install", "upload"} :
                        pl.result[st] = "fail") =>
          /\ Returned /\ pl.status = 1 /\ pl.jobs = 0
          /\ pl.result[pl.trace[Len(pl.trace)]] = "fail"
          /\ pl.result["probe"] = "none" /\ pl.result["execute"] = "none"
    /\ (PipelineOp /\ pl.result["purge"] = "fail") =>
          /\ pc # "pl_purge"
          /\ Returned => (pl.result["probe"] # "none" /\ pl.jobs = 1)

C30_Witness ==
    /\ PipelineOp /\ Returned
    /\ pl.result["setup"] = "ok" /\ pl.result["purge"] = "fail"
    /\ pl.jobs = 1 /\ pl.status = 0

\* The job command succeeded and the fetch after it brought no batch.
FetchFailedAfterJob ==
    /\ PipelineOp
    /\ pl.result["execute"] = "ok" /\ pl.result["fetch"] = "fail"

\* C31, as stated: when the job succeeded and the fetch failed, the run
\* returns status 0 and does not prune.
C31_FetchFailureKeepsSuccess ==
    FetchFailedAfterJob =>
        (Returned /\ pl.status = 0 /\ pl.result["prune"] = "none")

\* C31, amended: when the job succeeded and the fetch failed, the run returns
\* status 1 and does not prune.
C31_FetchFailureFails ==
    FetchFailedAfterJob =>
        (Returned /\ pl.status = 1 /\ pl.result["prune"] = "none")

C31_Witness ==
    /\ FetchFailedAfterJob /\ Returned
    /\ pl.args["prune"] /\ pl.jobs = 1 /\ pl.status = 1

\* The place of a stage in the order of the function body.
StageIndex(st) == CHOOSE i \in 1..Len(Stages) : Stages[i] = st

\* C32: the stages of a run occur in the fixed order, each at most once; the
\* job command is issued at most once and only after ensure_pod_running
\* returned True; a failed ensure or job ends the run with failure and without
\* a fetch; the fetch follows only a successful job, and the prune only a
\* successful fetch with pruning selected.
C32_StageOrder ==
    PipelineOp =>
        /\ \A i, j \in 1..Len(pl.trace) :
              i < j => StageIndex(pl.trace[i]) < StageIndex(pl.trace[j])
        /\ pl.jobs <= 1
        /\ pl.jobs = 1 <=> pl.result["execute"] # "none"
        /\ pl.result["execute"] # "none" =>
              (pl.result["ensure"] = "ok" /\ pl.trace[1] = "ensure")
        /\ (pl.result["ensure"] = "fail" \/ pl.result["execute"] = "fail") =>
              (Returned /\ pl.status = 1 /\ pl.result["fetch"] = "none")
        /\ pl.result["fetch"] # "none" => pl.result["execute"] = "ok"
        /\ pl.result["prune"] # "none" =>
              (pl.result["fetch"] = "ok" /\ pl.args["prune"])

C32_Witness ==
    /\ PipelineOp /\ Returned
    /\ pl.trace = Stages
    /\ pl.status = 0

\* C33: a manager constructed without a config argument carries a
\* configuration, never None, and its construction, hence that of a
\* PipelineRunner, completes without error.
C33_DefaultConfig ==
    (op \in {"RunPodManager", "PipelineRunner"} /\ ~rn.given) =>
        (rn.mconfig # None /\ ~rn.raised)

WaitWebuiOp == op = "wait_for_webui"

\* C34: wait_for_webui returns True only if some check reported ready; while
\* every check succeeds and reports not_ready it goes on polling, one sleep per
\* check, and returns False with the timeout used up.
C34_WebuiTruthful ==
    (WaitWebuiOp /\ Returned) =>
        /\ ret = TRUE => rn.seen_ready
        /\ rn.all_not_ready =>
              (ret = FALSE /\ n_sleep = rn.checks
               /\ n_sleep * SleepInterval >= timeout)

\* The test at the head of setup_workspace and install_dependencies
\* (manager.py lines 352 and 376) lets the call go on.
PassesRunningPodTest(pod) == pod # None /\ pod.is_running

\* C35: current_pod changes only in wait_for_pod_ready, which sets it after a
\* successful probe, and in cleanup, which resets it to None; start_pod,
\* stop_pod, get_pod_info, the probes and the remote commands leave it alone,
\* so a pod confirmed before a stop_pod call still passes the running-pod test
\* after it; after cleanup current_pod is None.
C35_CurrentPodFrame ==
    /\ [][current_pod' # current_pod =>
            \/ /\ pc \in {"wfr_fast", "wfr_probe"}
               /\ last_probe'
               /\ current_pod' = PodStatus(config.ssh_host, config.ssh_port)
            \/ /\ pc = "idle" /\ op' = "cleanup"
               /\ current_pod' = None]_vars
    /\ [][(pc = "stop_pod" /\ PassesRunningPodTest(current_pod)) =>
              PassesRunningPodTest(current_pod')]_vars
    /\ []((op = "cleanup" /\ Returned) => current_pod = None)

C35_Witness ==
    /\ op = "stop_pod" /\ Returned /\ ret = TRUE /\ n_stop = 1
    /\ PassesRunningPodTest(current_pod)

\* A run came back from its prune.
PrunedRun == op \in RunCommands /\ Returned /\ pl.result["prune"] = "ok"

\* C36: with pruning selected the run returns success; with keep >= 1 the
\* batch directory its fetch returned is still there after its prune; with
\* keep = 0 that directory is removed (unless its deletion failed).
C36_FetchedBatchSurvives ==
    PrunedRun =>
        /\ pl.status = 0
        /\ pr.keep >= 1 => fetched[1].dir \in NamesOf(fs.order)
        /\ (pr.keep = 0 /\ fetched[1].dir \notin pr.failed) =>
              fetched[1].dir \notin NamesOf(fs.order)

\* monitor_process has returned to cmd_monitor, or cmd_monitor to its caller.
MonitorReturned == op = "cmd_monitor" /\ pc \in {"cm_result", "idle"}

\* monitor_process returns False on every path and cmd_monitor never returns
\* exit status 0.
MonitorNeverSucceeds ==
    MonitorReturned =>
        /\ pl.result["ensure"] = "ok" => ret = FALSE
        /\ Returned => pl.status = 1

\* C37, as stated: monitor_process returns False on every path and ends within
\* the timeout plus one polling interval; cmd_monitor never returns 0.
C37_EndsWithinTimeout ==
    /\ MonitorNeverSucceeds
    /\ (MonitorReturned /\ timeout >= 0) =>
          elapsed <= timeout + MonitorInterval

\* C37, amended: the time from the start of the monitoring to the return is
\* below the timeout plus the time the last check took plus one polling
\* interval, one check and one sleep following each loop test that passed.
C37_EndsAfterLastCheck ==
    /\ MonitorNeverSucceeds
    /\ (MonitorReturned /\ n_probe = 0) => elapsed = 0
    /\ (MonitorReturned /\ n_probe > 0) =>
          /\ elapsed < timeout + busy + MonitorInterval
          /\ n_sleep \in {n_probe - 1, n_probe}
    /\ (op = "cmd_monitor" /\ pc = "mp_check") => elapsed < timeout

C37_Witness ==
    /\ op = "cmd_monitor" /\ Returned /\ pl.status = 1
    /\ timeout = MaxTimeoutArg /\ busy = ExecTimeout
    /\ n_probe = 1 /\ n_sleep = 1
    /\ elapsed = ExecTimeout + MonitorInterval

\* The request was sent and did not bring the expected entry.
RequestFailed ==
    /\ api.requests = 1
    /\ \/ api.response.kind = "exception"
       \/ api.response.status # 200
       \/ api.response.body.shape \in {"not_json", "no_data", "data_null", "entry_null"}

\* C19: get_pod_info, start_pod and stop_pod send at most one request per
\* call; a non-200 status, a body without the expected entry, or an exception
\* gives None (get_pod_info) or False (start_pod, stop_pod), never an
\* exception.
C19_OneRequestNoRaise ==
    (api.fn # "none") =>
        /\ api.requests <= 1
        /\ n_http = api.requests
        /\ ~api.raised
        /\ RequestFailed => (api.info = None /\ ~api.ok /\ ~ret)

C19_Witness ==
    /\ api.fn = "get_pod_info" /\ api.requests = 1
    /\ api.response.kind = "http" /\ api.response.status = 500
    /\ api.response.body.shape = "entry"
    /\ api.info = None



Next ==
    \/ call_ensure_pod_running
    \/ epr_probe
    \/ epr_start
    \/ call_wait_for_pod_ready
    \/ wfr_fast
    \/ wfr_test
    \/ wfr_describe
    \/ wfr_probe
    \/ wfr_sleep
    \/ cleanup
    \/ call_stop_pod
    \/ stop_pod
    \/ call_clear_remote_directory
    \/ crd_check
    \/ call_download_and_extract_outputs
    \/ dl_check
    \/ dl_parent
    \/ dl_name
    \/ dl_tar
    \/ dl_download
    \/ dl_extract
    \/ dl_rm
    \/ call_upload_project_files
    \/ up_build
    \/ up_upload
    \/ up_extract

Spec == Init /\ [][Next]_vars

\* The program is one sequential control flow that keeps running: a step that
\* can be taken is eventually taken.
FairSpec == Spec /\ WF_vars(Next)

\* The SSH channel and the control-plane client, call by call.
IoNext ==
    \/ call_execute_ssh_command
    \/ exec_connect
    \/ exec_command
    \/ exec_read
    \/ exec_status
    \/ call_test_ssh_connection
    \/ test_connect
    \/ test_close
    \/ api_get_pod_info
    \/ api_start_pod
    \/ api_stop_pod

IoSpec == Init /\ [][IoNext]_vars

\* The local base directory under fetches and prunes, from any directory a run
\* may find.
LocalInit ==
    /\ config \in {c \in Configs : c.api_key /\ c.ssh_host # "" /\ c.ssh_port # 0}
    /\ current_pod = None
    /\ op = "none" /\ pc = "idle" /\ ret = FALSE
    /\ auto_start = FALSE /\ branch = "direct" /\ timeout = 0
    /\ elapsed = 0 /\ busy = 0
    /\ n_probe = 0 /\ n_describe = 0 /\ n_sleep = 0 /\ n_start = 0 /\ n_stop = 0
    /\ probe1 = "none" /\ start_ok = "none"
    /\ last_probe = FALSE /\ last_info = None
    /\ remote_dir = <<>>
    /\ cmds = <<>>
    /\ dl = NoDownload
    /\ n_http = 0
    /\ chan = NoChan /\ sessions = 0
    /\ api = NoApi
    /\ fs \in InitialBases /\ fetched = <<>> /\ pr = NoPrune
    /\ up = NoUpload
    /\ tree = {} /\ ar = NoArchive
    /\ pl = NoPipeline
    /\ rn = NoRunner

LocalNext ==
    \/ fetch_local
    \/ prune_local_batches

LocalSpec == LocalInit /\ [][LocalNext]_vars

\* The project tree through upload_project_files and back, for every tree.
ArchiveInit ==
    /\ config \in {c \in Configs : c.api_key /\ c.ssh_host # "" /\ c.ssh_port # 0}
    /\ current_pod = None
    /\ op = "none" /\ pc = "idle" /\ ret = FALSE
    /\ auto_start = FALSE /\ branch = "direct" /\ timeout = 0
    /\ elapsed = 0 /\ busy = 0
    /\ n_probe = 0 /\ n_describe = 0 /\ n_sleep = 0 /\ n_start = 0 /\ n_stop = 0
    /\ probe1 = "none" /\ start_ok = "none"
    /\ last_probe = FALSE /\ last_info = None
    /\ remote_dir = <<>>
    /\ cmds = <<>>
    /\ dl = NoDownload
    /\ n_http = 0
    /\ chan = NoChan /\ sessions = 0
    /\ api = NoApi
    /\ fs = NoBase /\ fetched = <<>> /\ pr = NoPrune
    /\ up = NoUpload
    /\ tree \in InitialTrees
    /\ \E stale \in {{}, {StaleFile}} :
        ar = [NoArchive EXCEPT !.stage = "start", !.remote = stale]
    /\ pl = NoPipeline
    /\ rn = NoRunner

ArchiveNext ==
    \/ build_archive
    \/ remote_extract
    \/ fetch_back

ArchiveSpec == ArchiveInit /\ [][ArchiveNext]_vars

\* The runs of cmd_pipeline, stage by stage.
PipelineNext ==
    \/ call_cmd_pipeline
    \/ pl_ensure
    \/ pl_setup
    \/ pl_install
    \/ pl_upload
    \/ pl_purge
    \/ pl_probe
    \/ pl_boot
    \/ pl_execute
    \/ pl_fetch
    \/ pl_prune

PipelineSpec == Init /\ [][PipelineNext]_vars

\* The fetch and the prune that end a run.
RunNext ==
    \/ run_fetch
    \/ run_prune

RunSpec == LocalInit /\ [][RunNext]_vars

\* cmd_monitor with the monitor_process it calls.
MonitorNext ==
    \/ call_cmd_monitor
    \/ cm_ensure
    \/ mp_ensure
    \/ mp_test
    \/ mp_check
    \/ mp_sleep
    \/ cm_result

MonitorSpec == Init /\ [][MonitorNext]_vars

\* Construction of a manager or a runner, and the runner's wait for the WebUI.
RunnerNext ==
    \/ new_manager
    \/ new_runner
    \/ call_wait_for_webui
    \/ ww_test
    \/ ww_check
    \/ ww_sleep

RunnerSpec == Init /\ [][RunnerNext]_vars
====
